---- MODULE Spec2Model ----
(***************************************************************************)
(* State-machine model of the VR audio switcher (vr_audio_switcher.py):    *)
(* the SteamVR detector's poll loop, the audio switcher (svcl wrapper),    *)
(* the VoiceMeeter remote client and the tray application's threads.       *)
(***************************************************************************)
EXTENDS Integers, FiniteSets, Sequences, TLC

VARIABLES
    \* VRAudioSwitcher fields
    userMode, currentOutput, micEnabled, confirmed, lockOwner, stopFlag,
    \* SteamVRDetector fields
    vrRunning, lastChange, detStop, nextPoll,
    \* VoiceMeeterRemote fields
    vmDll, vmLoggedIn,
    \* AudioSwitcher fields
    multiTarget, userExclude,
    \* config.json: the exclude_processes list (meaningful when multiTarget)
    cfgExclude,
    \* state.json
    stateFile,
    \* the machine around the program: clock, processes, per-app routing
    now, raw, rawSince, procs, sessions, routing, vmProc,
    \* control state of the threads and their locals
    pc, ret, desired, desiredMic, wsMode, req,
    \* observation of the last calls (what a test double would record)
    lastSwitch, prevChange, prevRunning, cbCount, pollCount, firstPollCb,
    cbRawSince, missed, diffSince, fallbackDue, noopDue, dupStart, events,
    tickAfter, faults,
    \* the calls _quit has made, the last call of a VoiceMeeterRemote method
    \* and the engine writes of the last _apply
    quitTrace, vmLast, vmWrites,
    \* per loop thread: whether an exception reached the loop's except clause
    \* ("yes") and whether the loop began an iteration after it ("resumed")
    raised,
    \* main(): its position, vm_devices.json and vm_state.json as found on
    \* disk, and what was loaded from them
    mainPc, devFile, snapFile, vmDevices, vmParams,
    \* the named mutex and a second switcher process; config.json and the
    \* dialog main() has shown
    mutex, otherPc, cfgFile, cfgFields, dialog,
    \* the entries of vm_state.json and the entries of vm_params that the for
    \* loop of main() has still to set
    snap, pending,
    \* the VoiceMeeter engine: the value of each parameter and the value of the
    \* last set_param call made for it
    engine, lastSet,
    \* the switch_to call before the last one, and the routing it left
    prevSwitch, prevRouting,
    \* the machine's active render devices and the one the operating system
    \* has as default
    renderDevices, osDefault

appVars  == <<userMode, currentOutput, micEnabled, confirmed, lockOwner, stopFlag>>
detVars  == <<vrRunning, lastChange, detStop, nextPoll>>
engVars  == <<engine, lastSet>>
vmVars   == <<vmDll, vmLoggedIn, engVars>>
bootVars == <<mutex, otherPc, cfgFile, cfgFields, dialog>>
snapVars == <<snap, pending>>
prevVars == <<prevSwitch, prevRouting, renderDevices, osDefault>>
mainVars == <<mainPc, devFile, snapFile, vmDevices, vmParams, bootVars, snapVars,
              prevVars>>
cfgVars  == <<multiTarget, userExclude, cfgExclude, faults, mainVars>>
envVars  == <<now, raw, rawSince, procs, sessions, routing, vmProc>>
ctlVarsNoPc == <<ret, desired, desiredMic, wsMode, req>>
ctlVars  == <<pc, ret, desired, desiredMic, wsMode, req>>
runObs   == <<lastSwitch, prevChange, prevRunning, cbCount, pollCount,
              firstPollCb, cbRawSince, missed, diffSince, fallbackDue,
              noopDue, dupStart, events, tickAfter>>
callObs  == <<quitTrace, vmLast, raised>>
obsVars  == <<runObs, callObs, vmWrites>>
detObs   == <<prevChange, prevRunning, cbCount, pollCount, firstPollCb,
              cbRawSince, missed, diffSince, events>>
vars == <<appVars, detVars, vmVars, cfgVars, stateFile, envVars, ctlVars, obsVars>>

-----------------------------------------------------------------------------
\* Program constants and the bounds of the model

PollInterval == 3
Debounce == 5
MaxTime == 16

\* menu actions and enforcement ticks in one run
MaxEvents == 2

\* audio sessions open at the same time
MaxSessions == 2

\* time.time() at the first poll: seconds since the epoch, far past Debounce
StartTime == Debounce + 1

UserModes == {"DESKTOP", "AUTO", "VR", "SILENT_VR"}
AudioOutputs == {"DESKTOP", "VR"}
Threads == {"det", "enf", "ui", "setup"}

VrDevice == "vr_device"
DefaultRenderDevice == "DefaultRenderDevice"
Target == "chrome.exe"

SYSTEM_EXCLUDE ==
    {"vrchat.exe", "vrserver.exe", "vrmonitor.exe", "vrwebhelper.exe",
     "steamwebhelper.exe", "voicemeeterpro.exe", "voicemeeter.exe",
     "voicemeeter8.exe", "voicemeeter8x64.exe", "svchost.exe",
     "rundll32.exe", "audiodg.exe", "dwm.exe"}

\* Executable names as the operating system reports them
ProcNames == {"Spotify.exe", "spotify.exe", "Discord.exe", "VRChat.exe"}

\* Entries a config.json may list under exclude_processes
ConfigNames == {"vrchat.exe", "Discord.exe"}

\* the keys of config.json that __init__ of AudioSwitcher and SteamVRDetector
\* read with config[...], and the key main() checks
RequiredFields == {"svcl_path", "vr_device", "steamvr_process",
                   "poll_interval_seconds", "debounce_seconds"}
ConfigFields == RequiredFields \cup {"exclude_processes"}

\* str.lower() on the names of the model
Lower(s) ==
    CASE s = "Spotify.exe" -> "spotify.exe"
      [] s = "Discord.exe" -> "discord.exe"
      [] s = "VRChat.exe"  -> "vrchat.exe"
      [] OTHER -> s

LowerNames == {Lower(p) : p \in ProcNames}

BoolStr(b) == IF b THEN "True" ELSE "False"

-----------------------------------------------------------------------------
\* ModeController: _desired_output / _desired_mic

\* a mode table that sends SILENT_VR to the desktop output
DesiredOutputMut(mode, vrPresent) ==
    IF mode = "VR" THEN "VR"
    ELSE IF mode = "AUTO" /\ vrPresent THEN "VR" ELSE "DESKTOP"

\* _desired_output evaluated with one value of _user_mode and the raw presence
DesiredOutput(mode, vrPresent) ==
    IF mode = "DESKTOP" THEN "DESKTOP"
    ELSE IF mode \in {"VR", "SILENT_VR"} THEN "VR"
    ELSE IF vrPresent THEN "VR" ELSE "DESKTOP"

DesiredMic(mode) == mode = "VR"

-----------------------------------------------------------------------------
\* a legacy mode that does not look for its target process
IsProcessRunningMut(name) == TRUE

\* is_process_running(name): case-insensitive match over the running processes
IsProcessRunning(name) == \E p \in procs : Lower(p) = Lower(name)

\* _svcl_set: what svcl printed, or how the subprocess call ended
SvclOutcomes == {"1 item", "items found", "no match", "timeout", "not found"}

\* faults tells whether svcl.exe, the enumeration and VoiceMeeter can fail in
\* this run; without faults every call succeeds
SvclResults == IF faults THEN SvclOutcomes ELSE {"1 item"}
EnumResults == IF faults THEN BOOLEAN ELSE {TRUE}

\* a test of svcl's output that takes any output for a success
SvclSetMut(outcome) == outcome \in {"1 item", "items found", "no match"}

SvclSet(outcome) == outcome \in {"1 item", "items found"}

\* _enumerate_audio_apps: lower-cased executable names of the render sessions;
\* the empty set when the enumeration fails
EnumerateAudioApps(enumOk) ==
    IF enumOk THEN {Lower(p) : p \in sessions} ELSE {}

DeviceOf(output) == IF output = "VR" THEN VrDevice ELSE DefaultRenderDevice

\* a switch_to that skips the apps its last call redirected
TargetsSkipLastMut(apps) ==
    {p \in apps : /\ p \notin (SYSTEM_EXCLUDE \cup userExclude)
                  /\ ~(/\ p \in lastSwitch.cmds
                       /\ lastSwitch.res[p] \in {"1 item", "items found"})}

\* a redirect set that forgets the exclusions of config.json
TargetsMut(apps) == {p \in apps : p \notin SYSTEM_EXCLUDE}

\* the redirect set of switch_to in multi-target mode
Targets(apps) == {p \in apps : p \notin (SYSTEM_EXCLUDE \cup userExclude)}

NoRes == [p \in {} |-> "no match"]

NoSwitch == [called |-> FALSE, dev |-> "", enumOk |-> FALSE, cmds |-> {},
             res |-> NoRes, ret |-> FALSE]

\* switch_to(output): issues the redirects, records the call in lastSwitch
\* (device, whether the enumeration succeeded, the processes a redirect was
\* issued for, what each redirect printed, the value returned) and applies
\* each successful redirect to the machine's routing
SwitchTo(output) ==
    LET device == DeviceOf(output) IN
    IF ~multiTarget THEN
        IF ~IsProcessRunning(Target) THEN
            /\ lastSwitch' = [NoSwitch EXCEPT !.called = TRUE, !.dev = device]
            /\ UNCHANGED routing
        ELSE
            \E o \in SvclResults :
                /\ lastSwitch' = [called |-> TRUE, dev |-> device,
                                  enumOk |-> FALSE, cmds |-> {Target},
                                  res |-> [p \in {Target} |-> o],
                                  ret |-> SvclSet(o)]
                /\ routing' = IF SvclSet(o)
                              THEN [routing EXCEPT ![Target] = device]
                              ELSE routing
    ELSE
        \E enumOk \in EnumResults :
            LET apps == EnumerateAudioApps(enumOk)
                targets == Targets(apps)
            IN  \E res \in [targets -> SvclResults] :
                    LET ok_count == Cardinality({p \in targets : SvclSet(res[p])}) IN
                    /\ lastSwitch' = [called |-> TRUE, dev |-> device,
                                      enumOk |-> enumOk, cmds |-> targets,
                                      res |-> res, ret |-> ok_count > 0]
                    /\ routing' = [p \in DOMAIN routing |->
                                      IF p \in targets /\ SvclSet(res[p])
                                      THEN device ELSE routing[p]]

-----------------------------------------------------------------------------
\* VoiceMeeterRemote

LoginOutcomes == {"ok", "launched", "refused", "nodll", "raise"}
CallOutcomes == {"ok", "fail", "raise"}
LoginResults == IF faults THEN LoginOutcomes ELSE {"ok"}
CallResults == IF faults THEN CallOutcomes ELSE {"ok"}

\* set_strip_b1 / set_param after a successful _ensure_connected
SetParamRet(o) == o = "ok"
SetParamLoggedIn(li, o) == IF o = "raise" THEN FALSE ELSE li

\* the methods of VoiceMeeterRemote; "connect" is _ensure_connected
VmMethods == {"connect", "set_strip_b1", "set_param", "get_string_param",
              "set_string_param", "shutdown", "close"}
GetSet == {"set_strip_b1", "set_param", "get_string_param", "set_string_param"}

\* what a method returns when it fails
VmDefault(m) == IF m \in {"get_string_param", "shutdown", "close"}
                THEN "None" ELSE "False"

\* what a getter or setter returns when its native call returns 0
VmSuccess(m) == IF m = "get_string_param" THEN "value" ELSE "True"

\* a set_param whose native call is not inside a try block
CaughtMut(m, at) == ~(m = "set_param" /\ at = "call")

\* the except clauses: method m catches what its login (at = "login") and its
\* native call (at = "call") raise
Caught(m, at) == TRUE

\* _ensure_connected from connection state st with login outcome c
EnsureConnected(st, c) ==
    IF st.li THEN [dll |-> st.dll, li |-> TRUE, ok |-> TRUE, logins |-> 0,
                   raised |-> FALSE]
    ELSE IF c = "nodll" /\ ~st.dll
         THEN [dll |-> FALSE, li |-> FALSE, ok |-> FALSE, logins |-> 0,
               raised |-> FALSE]
         ELSE [dll |-> TRUE, li |-> c \in {"ok", "launched"},
               ok |-> c \in {"ok", "launched"}, logins |-> 1,
               raised |-> c = "raise"]

NoCall == [m |-> "none", pre |-> FALSE, c |-> "none", o |-> "none",
           ret |-> "none", failed |-> FALSE, exc |-> FALSE, logins |-> 0,
           native |-> FALSE]

\* one call of method m from connection state st, with login outcome c and
\* native call outcome o: the state it leaves and what the caller sees
VmCall(m, st, c, o) ==
    LET e == EnsureConnected(st, c)
        base == [NoCall EXCEPT !.m = m, !.pre = st.li, !.c = c, !.o = o,
                               !.logins = e.logins,
                               !.exc = e.raised /\ ~Caught(m, "login")]
    IN
    IF m = "close" THEN
        [dll |-> st.dll, li |-> FALSE,
         call |-> [NoCall EXCEPT !.m = m, !.pre = st.li, !.c = c, !.o = o,
                                 !.ret = "None",
                                 !.native = st.li /\ st.dll,
                                 !.exc = st.li /\ st.dll /\ o = "raise"
                                         /\ ~Caught(m, "call")]]
    ELSE IF m = "connect" THEN
        [dll |-> e.dll, li |-> e.li,
         call |-> [base EXCEPT !.ret = BoolStr(e.ok), !.failed = ~e.ok]]
    ELSE IF ~e.ok THEN
        [dll |-> e.dll, li |-> e.li,
         call |-> [base EXCEPT !.ret = VmDefault(m), !.failed = TRUE]]
    ELSE IF m = "shutdown" THEN
        [dll |-> e.dll, li |-> e.li,
         call |-> [base EXCEPT !.ret = "None", !.native = TRUE,
                               !.exc = base.exc
                                       \/ (o = "raise" /\ ~Caught(m, "call"))]]
    ELSE
        [dll |-> e.dll, li |-> SetParamLoggedIn(e.li, o),
         call |-> [base EXCEPT !.ret = IF SetParamRet(o) THEN VmSuccess(m)
                                       ELSE VmDefault(m),
                               !.failed = ~SetParamRet(o),
                               !.native = TRUE,
                               !.exc = base.exc
                                       \/ (o = "raise" /\ ~Caught(m, "call"))]]

\* the engine writes of an _apply: none yet
NoWrites == [by |-> "none", forced |-> FALSE, n |-> 0]

-----------------------------------------------------------------------------
\* Engine parameters and the parameter snapshot (vm_state.json).  Values are
\* in tenths: 10 is 1.0, -25 is -2.5 dB.

\* gains the mixer writes and main() defaults
GainNames == {"Strip[3].Gain", "Bus[3].Gain"}

\* the routing flags main() forces to 1.0 (mic -> B1, music -> B2); the two A1
\* flags forced to 0.0 by the same lines are not modelled
RoutingFlags == {"Strip[0].B1", "Strip[3].B2"}
FlagValue == 10

ParamNames == GainNames \cup RoutingFlags

\* numbers a snapshot may hold
NumValues == {-25, 10}

Num(n) == [t |-> "num", v |-> n]

\* JSON values: a number, a string that float() parses, and a value float()
\* rejects (null, a list, a string that is not a number)
JsonValues == {Num(n) : n \in NumValues}
              \cup {[t |-> "str", v |-> 5], [t |-> "null", v |-> 0]}

\* a float() that rejects every value
FloatMut(j) == <<>>

\* float(value): <<x>> for the number x, <<>> for ValueError or TypeError
Float(j) == IF j.t \in {"num", "str"} THEN <<j.v>> ELSE <<>>

\* a dict without entries
NoEntries == [p \in {} |-> Num(0)]

\* every JSON object over the parameter names
Snapshots == UNION {[K -> JsonValues] : K \in SUBSET ParamNames}

\* the objects the mixer's _sync_vm dumps: every gain, rounded to a tenth
UiSnapshots == [GainNames -> {Num(n) : n \in NumValues}]

\* the entries a vm_state.json of each kind can hold
SnapsOf(kind) ==
    CASE kind = "object" ->
           {d \in Snapshots : \A p \in DOMAIN d : d[p].t = "num"}
      [] kind = "object_bad_values" ->
           {d \in Snapshots : \E p \in DOMAIN d : d[p].t # "num"}
      [] OTHER -> {NoEntries}

\* VM_DEFAULTS of main()
VM_DEFAULTS == [p \in GainNames |-> Num(0)]

\* a main() that leaves the loaded routing flags as they are
ForceFlagsMut(d) == d

\* vm_params["Strip[0].B1"] = 1.0; vm_params["Strip[3].B2"] = 1.0
ForceFlags(d) ==
    [p \in DOMAIN d \cup RoutingFlags |->
        IF p \in RoutingFlags THEN Num(FlagValue) ELSE d[p]]

\* the order in which the entries of a dict are visited
ParamOrder == <<"Strip[3].Gain", "Bus[3].Gain", "Strip[0].B1", "Strip[3].B2">>

FirstKey(d) ==
    ParamOrder[CHOOSE i \in 1..Len(ParamOrder) :
                 /\ ParamOrder[i] \in DOMAIN d
                 /\ \A j \in 1..(i - 1) : ParamOrder[j] \notin DOMAIN d]

\* d without key p
Without(d, p) == [q \in DOMAIN d \ {p} |-> d[q]]

\* the engine after a set_param(p, v) whose native call returned ok
EngineSet(eng, p, v, ok) == IF ok THEN [eng EXCEPT ![p] = v] ELSE eng

\* the parameters of a VoiceMeeter that has just started
EngineFresh == [p \in ParamNames |-> 0]

\* no set_param call has been made
NoneSet == [p \in ParamNames |-> <<>>]

\* main() has passed its checks of the mutex and of config.json, neither
\* persisted file was found, and the defaults and the routing flags were set
InitStarted ==
    /\ mutex = "self"
    /\ otherPc = "off"
    /\ cfgFile = "object"
    /\ cfgFields = ConfigFields
    /\ dialog = "none"
    /\ snap = NoEntries
    /\ pending = NoEntries
    /\ engine = [p \in ParamNames |-> IF p \in RoutingFlags THEN FlagValue ELSE 0]
    /\ lastSet = [p \in ParamNames |-> <<engine[p]>>]

-----------------------------------------------------------------------------
\* Initial state: after VRAudioSwitcher.__init__, before run()

InitObjects ==
    /\ faults = TRUE
    /\ userMode = "AUTO"
    /\ currentOutput = "None"
    /\ micEnabled = TRUE
    /\ confirmed = FALSE
    /\ lockOwner = "none"
    /\ stopFlag = FALSE
    /\ vrRunning = "None"
    /\ lastChange = 0
    /\ detStop = FALSE
    /\ nextPoll = StartTime
    /\ vmDll = FALSE
    /\ vmLoggedIn = FALSE
    /\ now = StartTime
    /\ raw \in BOOLEAN
    /\ rawSince = 0
    /\ vmProc = TRUE
    /\ routing = [p \in LowerNames \cup {Target} |-> DefaultRenderDevice]
    /\ ret = [t \in Threads |-> "none"]
    /\ desired = "None"
    /\ desiredMic = FALSE
    /\ wsMode = [t \in Threads |-> "none"]
    /\ req = "none"
    /\ lastSwitch = NoSwitch
    /\ prevChange = 0
    /\ prevRunning = "None"
    /\ cbCount = 0
    /\ pollCount = 0
    /\ firstPollCb = FALSE
    /\ cbRawSince = 0
    /\ missed = FALSE
    /\ diffSince = -1
    /\ fallbackDue = FALSE
    /\ noopDue = FALSE
    /\ dupStart = FALSE
    /\ events = 0
    /\ tickAfter = FALSE
    /\ quitTrace = <<>>
    /\ vmLast = NoCall
    /\ vmWrites = NoWrites
    /\ raised = [t \in Threads |-> "no"]
    /\ prevSwitch = NoSwitch
    /\ prevRouting = routing
    /\ renderDevices = {"Speakers"}
    /\ osDefault = "Speakers"

\* main() has reached app.run(); neither persisted file was found
InitCommon ==
    /\ InitObjects
    /\ InitStarted
    /\ mainPc = "run"
    /\ devFile = "absent"
    /\ snapFile = "absent"
    /\ vmDevices = "empty"
    /\ vmParams = "defaults"

Max(a, b) == IF a >= b THEN a ELSE b

\* Init of the whole application: run() is about to call on_setup
Init ==
    /\ InitCommon
    /\ multiTarget = TRUE
    /\ cfgExclude = {"vrchat.exe"}
    /\ userExclude = {Lower(p) : p \in cfgExclude}
    /\ procs = {"Spotify.exe"}
    /\ sessions = {"Spotify.exe"}
    /\ stateFile = [exists |-> FALSE, requested |-> "none", current |-> "none"]
    /\ pc = [t \in Threads |->
               CASE t = "setup" -> "setup_start"
                 [] t = "ui" -> "ui_idle"
                 [] OTHER -> "off"]

-----------------------------------------------------------------------------
\* VRAudioSwitcher._apply, run by thread t; ret[t] is where t continues.
\* The enforcement loop's call is the one with force=True.

\* the process lives until _quit has stopped the tray icon and run() returns
Alive == pc["ui"] # "done"

\* an enforcement loop that calls _apply() without force
ForceMut(t) == FALSE

\* force of _apply: True in the call of _enforce_loop
Force(t) == ret[t] = "enf_health"

\* an _apply that switches whenever it runs
NeedSwitchMut(t) == TRUE

\* a need_switch that does not look at the confirmed flag
NeedSwitchUnconfirmedMut(t) == Force(t) \/ desired # currentOutput

\* need_switch of _apply
NeedSwitch(t) == Force(t) \/ desired # currentOutput \/ ~confirmed

\* with self._lock: first read of _user_mode in _desired_output
ApplyBegin(t) ==
    /\ pc[t] = "apply_begin"
    /\ Alive
    /\ lockOwner = "none"
    /\ lockOwner' = t
    /\ IF userMode = "DESKTOP"
       THEN /\ desired' = DesiredOutput(userMode, raw)
            /\ pc' = [pc EXCEPT ![t] = "apply_switch"]
       ELSE /\ desired' = desired
            /\ pc' = [pc EXCEPT ![t] = "apply_out2"]
    /\ UNCHANGED <<userMode, currentOutput, micEnabled, confirmed, stopFlag>>
    /\ UNCHANGED <<detVars, vmVars, cfgVars, stateFile, envVars, obsVars>>
    /\ UNCHANGED <<ret, desiredMic, wsMode, req>>

\* second read of _user_mode in _desired_output, and is_steamvr_running()
ApplyOut2(t) ==
    /\ pc[t] = "apply_out2"
    /\ Alive
    /\ desired' = IF userMode = "DESKTOP"
                  THEN (IF raw THEN "VR" ELSE "DESKTOP")
                  ELSE DesiredOutput(userMode, raw)
    /\ pc' = [pc EXCEPT ![t] = "apply_switch"]
    /\ UNCHANGED <<appVars, detVars, vmVars, cfgVars, stateFile, envVars, obsVars>>
    /\ UNCHANGED <<ret, desiredMic, wsMode, req>>

\* A Present signal (an _apply without force whose desired output is VR) finds
\* the VR session active: output VR confirmed and mic routing as desired
SessionActive(t) ==
    /\ ~Force(t)
    /\ desired = "VR"
    /\ currentOutput = "VR"
    /\ confirmed
    /\ micEnabled = DesiredMic(userMode)

\* _desired_mic, then the switch of the output when needed
ApplySwitch(t) ==
    /\ pc[t] = "apply_switch"
    /\ Alive
    /\ desiredMic' = DesiredMic(userMode)
    /\ IF NeedSwitch(t)
       THEN /\ SwitchTo(desired)
            /\ IF lastSwitch'.ret
               THEN currentOutput' = desired /\ confirmed' = TRUE
               ELSE currentOutput' = currentOutput /\ confirmed' = FALSE
       ELSE /\ lastSwitch' = NoSwitch
            /\ UNCHANGED <<routing, currentOutput, confirmed>>
    /\ noopDue' = SessionActive(t)
    /\ dupStart' = (dupStart \/ (SessionActive(t) /\ lastSwitch'.called))
    /\ pc' = [pc EXCEPT ![t] = "apply_vm"]
    /\ UNCHANGED <<userMode, micEnabled, lockOwner, stopFlag>>
    /\ UNCHANGED <<detVars, vmVars, cfgVars, stateFile>>
    /\ UNCHANGED <<now, raw, rawSince, procs, sessions, vmProc>>
    /\ UNCHANGED <<ret, desired, wsMode, req>>
    /\ UNCHANGED <<detObs, fallbackDue, tickAfter, callObs, vmWrites>>

\* One call of a VoiceMeeterRemote setter from connection state st:
\* _ensure_connected with login outcome c, then the native call with outcome o
VmLogins(st, call) == IF call /\ ~st.li THEN LoginResults ELSE {"ok"}
VmSet(st, c, o) ==
    IF st.li \/ c \in {"ok", "launched"}
    THEN [dll |-> TRUE, li |-> SetParamLoggedIn(TRUE, o), ok |-> SetParamRet(o)]
    ELSE [dll |-> st.dll \/ c # "nodll", li |-> FALSE, ok |-> FALSE]

VmState == [dll |-> vmDll, li |-> vmLoggedIn, ok |-> FALSE]

\* the connection states one setter or getter call can leave behind
VmResults(st) ==
    {VmSet(st, c, o) : c \in VmLogins(st, TRUE), o \in CallResults}

\* the connection states _ensure_connected alone can leave behind
VmConnect(st) ==
    {[dll |-> st.dll \/ c # "nodll",
      li |-> st.li \/ c \in {"ok", "launched"},
      ok |-> st.li \/ c \in {"ok", "launched"}] : c \in VmLogins(st, TRUE)}

\* mic routing (Strip[music_strip].B1), the two fixed routing flags when forced,
\* and the end of the with block
ApplyVm(t) ==
    /\ pc[t] = "apply_vm"
    /\ Alive
    /\ LET doMic == desiredMic # micEnabled \/ Force(t) IN
       \E s1 \in (IF doMic THEN VmResults(VmState) ELSE {VmState}) :
         \E s2 \in (IF Force(t) THEN VmResults(s1) ELSE {s1}) :
         \E s3 \in (IF Force(t) THEN VmResults(s2) ELSE {s2}) :
           /\ micEnabled' = IF doMic /\ s1.ok THEN desiredMic ELSE micEnabled
           /\ engine' = IF Force(t)
                        THEN EngineSet(EngineSet(engine, "Strip[0].B1", FlagValue,
                                                 s2.ok /\ vmProc),
                                       "Strip[3].B2", FlagValue, s3.ok /\ vmProc)
                        ELSE engine
           /\ lastSet' = IF Force(t)
                         THEN [lastSet EXCEPT !["Strip[0].B1"] = <<FlagValue>>,
                                              !["Strip[3].B2"] = <<FlagValue>>]
                         ELSE lastSet
           /\ vmDll' = s3.dll
           /\ vmLoggedIn' = s3.li
           /\ dupStart' = (dupStart \/ (noopDue /\ doMic))
           /\ vmWrites' = [by |-> t, forced |-> Force(t),
                           n |-> (IF doMic THEN 1 ELSE 0)
                                 + (IF Force(t) THEN 2 ELSE 0)]
    /\ noopDue' = FALSE
    /\ lockOwner' = "none"
    /\ pc' = [pc EXCEPT ![t] = ret[t]]
    /\ ret' = [ret EXCEPT ![t] = "none"]
    /\ desired' = "None"
    /\ desiredMic' = FALSE
    /\ lastSwitch' = NoSwitch
    /\ UNCHANGED <<userMode, currentOutput, confirmed, stopFlag>>
    /\ UNCHANGED <<detVars, cfgVars, stateFile, envVars>>
    /\ UNCHANGED <<wsMode, req>>
    /\ UNCHANGED <<detObs, fallbackDue, tickAfter, callObs>>

-----------------------------------------------------------------------------
\* VRAudioSwitcher._write_state, run by thread t

WsRet(t) == CASE t = "det" -> "cb_auto"
              [] t = "ui" -> "ui_idle"
              [] OTHER -> "setup_enf"

\* reads state.json and self._user_mode
WsRead(t) ==
    /\ pc[t] = "ws_read"
    /\ Alive
    /\ wsMode' = [wsMode EXCEPT ![t] = userMode]
    /\ pc' = [pc EXCEPT ![t] = "ws_write"]
    /\ UNCHANGED <<appVars, detVars, vmVars, cfgVars, stateFile, envVars, obsVars>>
    /\ UNCHANGED <<ret, desired, desiredMic, req>>

\* writes state.json: current_mode set, requested_mode popped
WsWrite(t) ==
    /\ pc[t] = "ws_write"
    /\ Alive
    /\ stateFile' = [exists |-> TRUE, requested |-> "none", current |-> wsMode[t]]
    /\ wsMode' = [wsMode EXCEPT ![t] = "none"]
    /\ pc' = [pc EXCEPT ![t] = WsRet(t)]
    /\ UNCHANGED <<appVars, detVars, vmVars, cfgVars, envVars, obsVars>>
    /\ UNCHANGED <<ret, desired, desiredMic, req>>

-----------------------------------------------------------------------------
\* SteamVRDetector._poll (thread "det") and the callback _on_steamvr_change

\* thread t begins an iteration of its loop
Resumed(t) == IF raised[t] = "yes" THEN [raised EXCEPT ![t] = "resumed"]
              ELSE raised

\* a poll without the debounce test
DebounceOkMut == TRUE

\* now - self._last_change >= self.debounce
DebounceOk == now - lastChange >= Debounce

\* a poll that reports whether or not the value differs
RawDiffersMut == TRUE

\* running != self._vr_running
RawDiffers == BoolStr(raw) # vrRunning

\* one iteration of the poll loop up to the call of on_change
\* loops that never look at their stop event
StopSetMut(t) == FALSE

\* self._stop.is_set(): the detector tests its own event, the enforcement
\* loop the application's
StopSet(t) == IF t = "det" THEN detStop ELSE stopFlag

Poll ==
    /\ pc["det"] = "wait"
    /\ Alive
    /\ ~StopSet("det")
    /\ now >= nextPoll
    /\ pollCount' = IF pollCount < 2 THEN pollCount + 1 ELSE pollCount
    /\ IF RawDiffers /\ DebounceOk
       THEN /\ vrRunning' = BoolStr(raw)
            /\ lastChange' = now
            /\ prevChange' = lastChange
            /\ prevRunning' = vrRunning
            /\ cbCount' = IF cbCount < 2 THEN cbCount + 1 ELSE cbCount
            /\ firstPollCb' = (firstPollCb \/ pollCount = 0)
            /\ cbRawSince' = rawSince
            /\ diffSince' = -1
            /\ fallbackDue' = (/\ vrRunning = "True"
                               /\ ~raw
                               /\ userMode \in {"VR", "SILENT_VR"})
            /\ pc' = [pc EXCEPT !["det"] = "cb_check"]
            /\ UNCHANGED nextPoll
       ELSE /\ nextPoll' = now + PollInterval
            /\ diffSince' = IF BoolStr(raw) = vrRunning THEN -1
                            ELSE IF diffSince = -1 THEN now ELSE diffSince
            /\ UNCHANGED <<vrRunning, lastChange, prevChange, prevRunning,
                           cbCount, firstPollCb, cbRawSince, pc, fallbackDue>>
    /\ UNCHANGED <<appVars, detStop, vmVars, cfgVars, stateFile, envVars>>
    /\ UNCHANGED <<ret, desired, desiredMic, wsMode, req>>
    /\ UNCHANGED <<lastSwitch, missed, noopDue, dupStart, events, tickAfter>>
    /\ raised' = Resumed("det")
    /\ UNCHANGED <<quitTrace, vmLast, vmWrites>>

\* _on_steamvr_change(running): the test of the fallback rule
CbCheck ==
    /\ pc["det"] = "cb_check"
    /\ Alive
    /\ pc' = [pc EXCEPT !["det"] =
                 IF vrRunning = "False" /\ userMode \in {"VR", "SILENT_VR"}
                 THEN "cb_fallback" ELSE "cb_auto"]
    /\ UNCHANGED <<appVars, detVars, vmVars, cfgVars, stateFile, envVars, obsVars>>
    /\ UNCHANGED <<ret, desired, desiredMic, wsMode, req>>

\* self._user_mode = UserMode.AUTO, then _write_state
CbFallback ==
    /\ pc["det"] = "cb_fallback"
    /\ Alive
    /\ userMode' = "AUTO"
    /\ pc' = [pc EXCEPT !["det"] = "ws_read"]
    /\ UNCHANGED <<currentOutput, micEnabled, confirmed, lockOwner, stopFlag>>
    /\ UNCHANGED <<detVars, vmVars, cfgVars, stateFile, envVars, obsVars>>
    /\ UNCHANGED <<ret, desired, desiredMic, wsMode, req>>

\* if self._user_mode == UserMode.AUTO: self._apply()
CbAuto ==
    /\ pc["det"] = "cb_auto"
    /\ Alive
    /\ IF userMode = "AUTO"
       THEN /\ pc' = [pc EXCEPT !["det"] = "apply_begin"]
            /\ ret' = [ret EXCEPT !["det"] = "poll_end"]
       ELSE /\ pc' = [pc EXCEPT !["det"] = "poll_end"]
            /\ UNCHANGED ret
    /\ UNCHANGED <<appVars, detVars, vmVars, cfgVars, stateFile, envVars, obsVars>>
    /\ UNCHANGED <<desired, desiredMic, wsMode, req>>

\* self._stop.wait(self.poll_interval) begins after the callback returned
PollSleep ==
    /\ pc["det"] = "poll_end"
    /\ Alive
    /\ nextPoll' = now + PollInterval
    /\ pc' = [pc EXCEPT !["det"] = "wait"]
    /\ UNCHANGED <<appVars, vrRunning, lastChange, detStop>>
    /\ UNCHANGED <<vmVars, cfgVars, stateFile, envVars, obsVars>>
    /\ UNCHANGED <<ret, desired, desiredMic, wsMode, req>>

\* the loop ends once the stop event is set
DetExit ==
    /\ pc["det"] = "wait"
    /\ Alive
    /\ StopSet("det")
    /\ pc' = [pc EXCEPT !["det"] = "done"]
    /\ UNCHANGED <<appVars, detVars, vmVars, cfgVars, stateFile, envVars, obsVars>>
    /\ UNCHANGED <<ret, desired, desiredMic, wsMode, req>>

-----------------------------------------------------------------------------
\* The clock and the VR process

PollDue == pc["det"] = "wait" /\ ~detStop /\ now >= nextPoll

\* One second passes; the VR process may start or stop at the new instant.
\* A poll that is due is taken before the clock moves on.  missed records
\* that the raw value changes back after it was held for Debounce seconds or
\* more, was seen by a poll and was never reported.
TickDet ==
    /\ now < MaxTime
    /\ ~PollDue
    /\ now' = now + 1
    /\ \E flip \in BOOLEAN :
         /\ raw' = IF flip THEN ~raw ELSE raw
         /\ rawSince' = IF flip THEN now + 1 ELSE rawSince
         /\ missed' = (missed \/ (/\ flip
                                  /\ pc["det"] = "wait"
                                  /\ vrRunning # "None"
                                  /\ BoolStr(raw) # vrRunning
                                  /\ diffSince >= rawSince
                                  /\ now + 1 - rawSince >= Debounce))
    /\ UNCHANGED <<appVars, detVars, vmVars, cfgVars, stateFile, ctlVars>>
    /\ UNCHANGED <<procs, sessions, routing, vmProc>>
    /\ UNCHANGED <<lastSwitch, prevChange, prevRunning, cbCount, pollCount,
                   firstPollCb, cbRawSince, diffSince, fallbackDue, noopDue, dupStart,
                   events, tickAfter, callObs, vmWrites>>

\* The detector alone, started, against the clock
InitDet ==
    /\ InitCommon
    /\ multiTarget = TRUE
    /\ cfgExclude = {"vrchat.exe"}
    /\ userExclude = {Lower(p) : p \in cfgExclude}
    /\ procs = {"Spotify.exe"}
    /\ sessions = {"Spotify.exe"}
    /\ stateFile = [exists |-> FALSE, requested |-> "none", current |-> "none"]
    /\ pc = [t \in Threads |-> IF t = "det" THEN "wait" ELSE "off"]

NextDet ==
    \/ TickDet
    \/ Poll
    \/ CbCheck
    \/ CbAuto
    \/ PollSleep
    \/ ApplyBegin("det")
    \/ ApplyOut2("det")
    \/ ApplySwitch("det")
    \/ ApplyVm("det")

SpecDet == InitDet /\ [][NextDet]_vars

-----------------------------------------------------------------------------
\* The tray menu (thread "ui"): _set_mode(mode) and _cycle_mode

MODE_CYCLE == <<"DESKTOP", "AUTO", "SILENT_VR", "VR">>

\* MODE_CYCLE[(idx + 1) % len(MODE_CYCLE)]
CycleNext(mode) ==
    LET idx == CHOOSE i \in 1..Len(MODE_CYCLE) : MODE_CYCLE[i] = mode
    IN  MODE_CYCLE[(idx % Len(MODE_CYCLE)) + 1]

\* the menu exists once on_setup has made the icon visible
UiBegin(mode) ==
    /\ pc["ui"] = "ui_idle"
    /\ pc["setup"] # "setup_start"
    /\ events < MaxEvents
    /\ events' = events + 1
    /\ userMode' = mode
    /\ pc' = [pc EXCEPT !["ui"] = "apply_begin"]
    /\ ret' = [ret EXCEPT !["ui"] = "ws_read"]
    /\ fallbackDue' = FALSE
    /\ UNCHANGED <<currentOutput, micEnabled, confirmed, lockOwner, stopFlag>>
    /\ UNCHANGED <<detVars, vmVars, cfgVars, stateFile, envVars>>
    /\ UNCHANGED <<lastSwitch, prevChange, prevRunning, cbCount, pollCount>>
    /\ UNCHANGED <<firstPollCb, cbRawSince, missed, diffSince, noopDue, dupStart, tickAfter>>
    /\ UNCHANGED <<callObs, vmWrites>>
    /\ UNCHANGED <<desired, desiredMic, wsMode, req>>

\* a menu item: self._user_mode = mode; self._apply(); self._write_state()
UiSetMode == \E mode \in UserModes : UiBegin(mode)

\* left click: the next mode of MODE_CYCLE
UiCycle == UiBegin(CycleNext(userMode))

\* The tray menu alone, over every configuration and set of audio sessions
InitSwitch ==
    /\ InitCommon
    /\ multiTarget \in BOOLEAN
    /\ cfgExclude \in SUBSET ConfigNames
    /\ ~multiTarget => cfgExclude = {}
    /\ userExclude = {Lower(p) : p \in cfgExclude}
    /\ sessions \in SUBSET ProcNames
    /\ \E bg \in SUBSET {Target} : procs = sessions \cup bg
    /\ multiTarget => procs = sessions
    /\ ~multiTarget => sessions = {}
    /\ stateFile = [exists |-> FALSE, requested |-> "none", current |-> "none"]
    /\ pc = [t \in Threads |-> IF t = "ui" THEN "ui_idle" ELSE "off"]

NextSwitch ==
    \/ UiSetMode
    \/ UiCycle
    \/ ApplyBegin("ui")
    \/ ApplyOut2("ui")
    \/ ApplySwitch("ui")
    \/ ApplyVm("ui")
    \/ WsRead("ui")
    \/ WsWrite("ui")

SpecSwitch == InitSwitch /\ [][NextSwitch]_vars

\* The tray icon alone, used by left clicks only
NextCycle ==
    \/ UiCycle
    \/ ApplyBegin("ui")
    \/ ApplyOut2("ui")
    \/ ApplySwitch("ui")
    \/ ApplyVm("ui")
    \/ WsRead("ui")
    \/ WsWrite("ui")

SpecCycle == InitSwitch /\ [][NextCycle]_vars

-----------------------------------------------------------------------------
\* The AudioSwitcher alone: switch_to called again and again while the audio
\* sessions, the processes and the configuration stay as they are

\* one call of switch_to; the call before it and the routing that call left
\* are kept for comparison
SwitchCall(output) ==
    /\ SwitchTo(output)
    /\ prevSwitch' = lastSwitch
    /\ prevRouting' = routing
    /\ UNCHANGED <<renderDevices, osDefault>>
    /\ UNCHANGED <<appVars, detVars, vmVars, stateFile, ctlVars>>
    /\ UNCHANGED <<multiTarget, userExclude, cfgExclude, faults>>
    /\ UNCHANGED <<mainPc, devFile, snapFile, vmDevices, vmParams, bootVars, snapVars>>
    /\ UNCHANGED <<now, raw, rawSince, procs, sessions, vmProc>>
    /\ UNCHANGED <<prevChange, prevRunning, cbCount, pollCount, firstPollCb>>
    /\ UNCHANGED <<cbRawSince, missed, diffSince, fallbackDue, noopDue, dupStart>>
    /\ UNCHANGED <<events, tickAfter, callObs, vmWrites>>

NextTwice == \E output \in AudioOutputs : SwitchCall(output)

\* every configuration, with or without exclude_processes, every set of at
\* most MaxSessions audio sessions, and the target process of the legacy mode
\* running or not
InitTwice ==
    /\ InitCommon
    /\ multiTarget \in BOOLEAN
    /\ cfgExclude \in SUBSET ConfigNames
    /\ ~multiTarget => cfgExclude = {}
    /\ userExclude = {Lower(p) : p \in cfgExclude}
    /\ sessions \in {s \in SUBSET ProcNames : Cardinality(s) <= MaxSessions}
    /\ \E bg \in SUBSET {Target} : procs = sessions \cup bg
    /\ multiTarget => procs = sessions
    /\ stateFile = [exists |-> FALSE, requested |-> "none", current |-> "none"]
    /\ pc = [t \in Threads |-> IF t = "ui" THEN "ui_idle" ELSE "off"]

SpecTwice == InitTwice /\ [][NextTwice]_vars

\* The AudioSwitcher and the machine's render devices: between two calls a
\* device is plugged or unplugged, or the user or another program makes
\* another device the default
RenderDevices == {"Speakers", "HDMI", "Headset"}

DevicesChange ==
    /\ renderDevices' \in (SUBSET RenderDevices) \ {{}}
    /\ osDefault' \in renderDevices'
    /\ <<renderDevices', osDefault'>> # <<renderDevices, osDefault>>
    /\ lastSwitch' = NoSwitch
    /\ prevSwitch' = NoSwitch
    /\ prevRouting' = routing
    /\ UNCHANGED <<appVars, detVars, vmVars, stateFile, ctlVars>>
    /\ UNCHANGED <<multiTarget, userExclude, cfgExclude, faults>>
    /\ UNCHANGED <<mainPc, devFile, snapFile, vmDevices, vmParams, bootVars, snapVars>>
    /\ UNCHANGED envVars
    /\ UNCHANGED <<prevChange, prevRunning, cbCount, pollCount, firstPollCb>>
    /\ UNCHANGED <<cbRawSince, missed, diffSince, fallbackDue, noopDue, dupStart>>
    /\ UNCHANGED <<events, tickAfter, callObs, vmWrites>>

NextDevices ==
    \/ \E output \in AudioOutputs : SwitchCall(output)
    \/ DevicesChange

SpecDevices == Init /\ [][NextDevices]_vars

-----------------------------------------------------------------------------
\* on_setup of run() (thread "setup")

\* self.detector.start(), then self._apply() and self._write_state()
SetupStart ==
    /\ pc["setup"] = "setup_start"
    /\ Alive
    /\ pc' = [pc EXCEPT !["setup"] = "apply_begin", !["det"] = "wait"]
    /\ ret' = [ret EXCEPT !["setup"] = "ws_read"]
    /\ UNCHANGED <<appVars, detVars, vmVars, cfgVars, stateFile, envVars, obsVars>>
    /\ UNCHANGED <<desired, desiredMic, wsMode, req>>

\* the enforcement thread is started
SetupEnf ==
    /\ pc["setup"] = "setup_enf"
    /\ Alive
    /\ pc' = [pc EXCEPT !["setup"] = "done", !["enf"] = "enf_wait"]
    /\ UNCHANGED <<appVars, detVars, vmVars, cfgVars, stateFile, envVars, obsVars>>
    /\ UNCHANGED <<ret, desired, desiredMic, wsMode, req>>

-----------------------------------------------------------------------------
\* _enforce_loop (thread "enf").  The wait of ENFORCE_INTERVAL seconds is not
\* measured against the detector's clock: a tick can fall at any instant.

\* self._stop.wait(ENFORCE_INTERVAL) returns and the stop event is not set
EnfTick ==
    /\ pc["enf"] = "enf_wait"
    /\ Alive
    /\ ~StopSet("enf")
    /\ events < MaxEvents
    /\ events' = events + 1
    /\ pc' = [pc EXCEPT !["enf"] = "cmr_read"]
    /\ UNCHANGED <<appVars, detVars, vmVars, cfgVars, stateFile, envVars>>
    /\ UNCHANGED <<lastSwitch, prevChange, prevRunning, cbCount, pollCount>>
    /\ UNCHANGED <<firstPollCb, cbRawSince, missed, diffSince>>
    /\ UNCHANGED <<fallbackDue, noopDue, dupStart, quitTrace, vmLast, vmWrites>>
    /\ raised' = Resumed("enf")
    /\ tickAfter' = (fallbackDue /\ pc["det"] \in {"poll_end", "wait"})
    /\ UNCHANGED <<ret, desired, desiredMic, wsMode, req>>

\* the stop event is set: the loop ends
EnfExit ==
    /\ pc["enf"] = "enf_wait"
    /\ Alive
    /\ StopSet("enf")
    /\ pc' = [pc EXCEPT !["enf"] = "done"]
    /\ UNCHANGED <<appVars, detVars, vmVars, cfgVars, stateFile, envVars, obsVars>>
    /\ UNCHANGED <<ret, desired, desiredMic, wsMode, req>>

\* _check_mode_request: state.json is read; without a request the forced
\* _apply of the tick is next
CmrRead ==
    /\ pc["enf"] = "cmr_read"
    /\ Alive
    /\ IF stateFile.exists /\ stateFile.requested # "none"
       THEN /\ req' = stateFile.requested
            /\ pc' = [pc EXCEPT !["enf"] = "cmr_set"]
            /\ UNCHANGED ret
       ELSE /\ pc' = [pc EXCEPT !["enf"] = "apply_begin"]
            /\ ret' = [ret EXCEPT !["enf"] = "enf_health"]
            /\ UNCHANGED req
    /\ UNCHANGED <<appVars, detVars, vmVars, cfgVars, stateFile, envVars, obsVars>>
    /\ UNCHANGED <<desired, desiredMic, wsMode>>

\* a request handler that takes every name for a mode
ValidRequestMut(requested) == TRUE

\* requested in mode_map, the names of the members of UserMode
ValidRequest(requested) == requested \in UserModes

\* if requested in mode_map: self._user_mode = mode_map[requested]; _apply()
CmrSet ==
    /\ pc["enf"] = "cmr_set"
    /\ Alive
    /\ IF ValidRequest(req)
       THEN /\ userMode' = req
            /\ pc' = [pc EXCEPT !["enf"] = "apply_begin"]
            /\ ret' = [ret EXCEPT !["enf"] = "cmr_write"]
       ELSE /\ pc' = [pc EXCEPT !["enf"] = "cmr_write"]
            /\ UNCHANGED <<userMode, ret>>
    /\ UNCHANGED <<currentOutput, micEnabled, confirmed, lockOwner, stopFlag>>
    /\ UNCHANGED <<detVars, vmVars, cfgVars, stateFile, envVars, obsVars>>
    /\ UNCHANGED <<desired, desiredMic, wsMode, req>>

\* the request is cleared and current_mode written; then _apply(force=True)
CmrWrite ==
    /\ pc["enf"] = "cmr_write"
    /\ Alive
    /\ stateFile' = [exists |-> TRUE, requested |-> "none", current |-> userMode]
    /\ req' = "none"
    /\ pc' = [pc EXCEPT !["enf"] = "apply_begin"]
    /\ ret' = [ret EXCEPT !["enf"] = "enf_health"]
    /\ UNCHANGED <<appVars, detVars, vmVars, cfgVars, envVars, obsVars>>
    /\ UNCHANGED <<desired, desiredMic, wsMode>>

\* a health check that takes VoiceMeeter for dead whenever it looks
VmRunningMut == FALSE

\* vm_running: some process is a VoiceMeeter process
VmRunning == vmProc

\* _check_voicemeeter_health: nothing to do while VoiceMeeter runs or when
\* find_exe finds nothing; otherwise VoiceMeeter is started again
EnfHealth ==
    /\ pc["enf"] = "enf_health"
    /\ Alive
    /\ \E found \in BOOLEAN :
         IF ~VmRunning /\ found
         THEN /\ vmProc' = TRUE
              /\ engine' = EngineFresh
              /\ pc' = [pc EXCEPT !["enf"] = "health_reconnect"]
         ELSE /\ vmProc' = vmProc
              /\ engine' = engine
              /\ pc' = [pc EXCEPT !["enf"] = "enf_wait"]
    /\ ret' = [ret EXCEPT !["enf"] = "none"]
    /\ UNCHANGED <<appVars, detVars, vmDll, vmLoggedIn, lastSet>>
    /\ UNCHANGED <<cfgVars, stateFile, obsVars>>
    /\ UNCHANGED <<now, raw, rawSince, procs, sessions, routing>>
    /\ UNCHANGED <<desired, desiredMic, wsMode, req>>

\* self.vm._logged_in = False; self.vm._ensure_connected()
HealthReconnect ==
    /\ pc["enf"] = "health_reconnect"
    /\ Alive
    /\ \E s \in VmConnect([VmState EXCEPT !.li = FALSE]) :
         vmDll' = s.dll /\ vmLoggedIn' = s.li
    /\ pc' = [pc EXCEPT !["enf"] = "health_restore"]
    /\ UNCHANGED <<appVars, detVars, cfgVars, stateFile, envVars, ctlVarsNoPc, obsVars>>
    /\ UNCHANGED engVars

\* the kinds of file whose json.load gives a dict
Loadable == {"object", "object_bad_values"}

\* the devices of vm_devices.json are set again when the file holds an
\* object; a value that is not a string raises inside set_string_param.
\* Then vm_state.json is loaded.
HealthRestore ==
    /\ pc["enf"] = "health_restore"
    /\ Alive
    /\ \E s \in (CASE devFile = "object" -> VmResults(VmState)
                   [] devFile = "object_bad_values" ->
                        {VmSet(VmState, c, "raise") : c \in VmLogins(VmState, TRUE)}
                   [] OTHER -> {VmState}) :
         vmDll' = s.dll /\ vmLoggedIn' = s.li
    /\ pending' = IF snapFile \in Loadable THEN snap ELSE NoEntries
    /\ pc' = [pc EXCEPT !["enf"] = IF DOMAIN pending' = {} THEN "enf_wait"
                                   ELSE "health_param"]
    /\ UNCHANGED <<appVars, detVars, stateFile, envVars, ctlVarsNoPc, obsVars>>
    /\ UNCHANGED <<multiTarget, userExclude, cfgExclude, faults>>
    /\ UNCHANGED <<mainPc, devFile, snapFile, vmDevices, vmParams, bootVars, snap>>
    /\ UNCHANGED engVars
    /\ UNCHANGED prevVars

\* one turn of for k, v in params.items(): self.vm.set_param(k, float(v));
\* a value float() rejects ends the restore in the except clause
HealthSetParam ==
    /\ pc["enf"] = "health_param"
    /\ Alive
    /\ LET p == FirstKey(pending)
           f == Float(pending[p])
       IN
       IF f = <<>>
       THEN /\ pending' = NoEntries
            /\ UNCHANGED vmVars
       ELSE /\ pending' = Without(pending, p)
            /\ \E s \in VmResults(VmState) :
                 /\ vmDll' = s.dll
                 /\ vmLoggedIn' = s.li
                 /\ engine' = EngineSet(engine, p, f[1], s.ok /\ vmProc)
                 /\ lastSet' = [lastSet EXCEPT ![p] = f]
    /\ pc' = [pc EXCEPT !["enf"] = IF DOMAIN pending' = {} THEN "enf_wait"
                                   ELSE "health_param"]
    /\ UNCHANGED <<appVars, detVars, stateFile, envVars, ctlVarsNoPc, obsVars>>
    /\ UNCHANGED <<multiTarget, userExclude, cfgExclude, faults>>
    /\ UNCHANGED <<mainPc, devFile, snapFile, vmDevices, vmParams, bootVars, snap>>
    /\ UNCHANGED prevVars

-----------------------------------------------------------------------------
\* _quit (thread "ui"); none of its steps takes self._lock

\* self._stop.set(); detector.stop() sets the detector's stop event
UiQuit ==
    /\ pc["ui"] = "ui_idle"
    /\ stopFlag' = TRUE
    /\ detStop' = TRUE
    /\ pc' = [pc EXCEPT !["ui"] = "quit_join"]
    /\ UNCHANGED <<userMode, currentOutput, micEnabled, confirmed, lockOwner>>
    /\ UNCHANGED <<vrRunning, lastChange, nextPoll>>
    /\ UNCHANGED <<vmVars, cfgVars, stateFile, envVars, ctlVarsNoPc, obsVars>>

\* a join that waits for the detector's thread without a timeout
JoinReturnsMut == pc["det"] \in {"done", "off"}

\* self._thread.join(timeout=10) returns: the detector has left its loop, or
\* it is inside a callback and the join times out
JoinReturns == pc["det"] # "wait"

\* a _quit that sends the shutdown command before it saves the devices
QuitAfterMut(step) ==
    CASE step = "quit_join" -> "quit_switch"
      [] step = "quit_switch" -> "quit_mic"
      [] step = "quit_mic" -> "quit_shutdown"
      [] step = "quit_shutdown" -> "quit_devices"
      [] step = "quit_devices" -> "quit_close"
      [] OTHER -> "done"

\* the order of the statements of _quit
QuitAfter(step) ==
    CASE step = "quit_join" -> "quit_switch"
      [] step = "quit_switch" -> "quit_mic"
      [] step = "quit_mic" -> "quit_devices"
      [] step = "quit_devices" -> "quit_shutdown"
      [] step = "quit_shutdown" -> "quit_close"
      [] OTHER -> "done"

\* one entry of quitTrace: a call of _quit and whether it succeeded
Did(step, ok) == [step |-> step, ok |-> ok]

QuitJoin ==
    /\ pc["ui"] = "quit_join"
    /\ JoinReturns
    /\ pc' = [pc EXCEPT !["ui"] = QuitAfter("quit_join")]
    /\ UNCHANGED <<appVars, detVars, vmVars, cfgVars, stateFile, envVars>>
    /\ UNCHANGED <<ctlVarsNoPc, obsVars>>

\* self.audio.switch_to(AudioOutput.DESKTOP)
QuitSwitch ==
    /\ pc["ui"] = "quit_switch"
    /\ SwitchTo("DESKTOP")
    /\ quitTrace' = Append(quitTrace, Did("redirect", lastSwitch'.ret))
    /\ pc' = [pc EXCEPT !["ui"] = QuitAfter("quit_switch")]
    /\ UNCHANGED <<appVars, detVars, vmVars, cfgVars, stateFile>>
    /\ UNCHANGED <<now, raw, rawSince, procs, sessions, vmProc>>
    /\ UNCHANGED <<ctlVarsNoPc, detObs, fallbackDue, noopDue, dupStart, tickAfter>>
    /\ UNCHANGED <<vmLast, vmWrites, raised>>

\* self.vm.set_strip_b1(self.music_strip, True)
QuitMic ==
    /\ pc["ui"] = "quit_mic"
    /\ \E s \in VmResults(VmState) :
         /\ vmDll' = s.dll
         /\ vmLoggedIn' = s.li
         /\ quitTrace' = Append(quitTrace, Did("mic", s.ok))
    /\ lastSwitch' = NoSwitch
    /\ pc' = [pc EXCEPT !["ui"] = QuitAfter("quit_mic")]
    /\ UNCHANGED <<appVars, detVars, cfgVars, stateFile, envVars, ctlVarsNoPc>>
    /\ UNCHANGED <<detObs, fallbackDue, noopDue, dupStart, tickAfter>>
    /\ UNCHANGED <<vmLast, vmWrites, raised>>
    /\ UNCHANGED engVars

\* the get_string_param calls; vm_devices.json is written when a device name
\* was obtained, and a failure to write it is caught
QuitDevices ==
    /\ pc["ui"] = "quit_devices"
    /\ \E s \in VmResults(VmState), written \in (IF faults THEN BOOLEAN ELSE {TRUE}) :
         /\ vmDll' = s.dll
         /\ vmLoggedIn' = s.li
         /\ quitTrace' = IF s.ok
                         THEN quitTrace \o <<Did("query", TRUE),
                                             Did("persist", written)>>
                         ELSE Append(quitTrace, Did("query", FALSE))
         /\ devFile' = IF s.ok /\ written THEN "object" ELSE devFile
    /\ pc' = [pc EXCEPT !["ui"] = QuitAfter("quit_devices")]
    /\ UNCHANGED <<appVars, detVars, stateFile, envVars, ctlVarsNoPc>>
    /\ UNCHANGED <<multiTarget, userExclude, cfgExclude, faults>>
    /\ UNCHANGED <<mainPc, snapFile, vmDevices, vmParams, bootVars, snapVars>>
    /\ UNCHANGED <<runObs, vmLast, vmWrites, raised>>
    /\ UNCHANGED engVars
    /\ UNCHANGED prevVars

\* self.vm.shutdown(), time.sleep(3), and the kill of the VoiceMeeter process
QuitShutdown ==
    /\ pc["ui"] = "quit_shutdown"
    /\ \E s \in VmConnect(VmState) :
         /\ vmDll' = s.dll
         /\ vmLoggedIn' = s.li
         /\ quitTrace' = Append(quitTrace, Did("shutdown", s.ok))
    /\ vmProc' = FALSE
    /\ pc' = [pc EXCEPT !["ui"] = QuitAfter("quit_shutdown")]
    /\ UNCHANGED <<appVars, detVars, cfgVars, stateFile, ctlVarsNoPc>>
    /\ UNCHANGED <<now, raw, rawSince, procs, sessions, routing>>
    /\ UNCHANGED <<runObs, vmLast, vmWrites, raised>>
    /\ UNCHANGED engVars

\* self.vm.close(); icon.stop()
QuitClose ==
    /\ pc["ui"] = "quit_close"
    /\ vmLoggedIn' = FALSE
    /\ quitTrace' = Append(quitTrace, Did("close", vmLoggedIn))
    /\ pc' = [pc EXCEPT !["ui"] = QuitAfter("quit_close")]
    /\ UNCHANGED <<appVars, detVars, vmDll, cfgVars, stateFile, envVars>>
    /\ UNCHANGED <<ctlVarsNoPc, runObs, vmLast, vmWrites, raised>>
    /\ UNCHANGED engVars

-----------------------------------------------------------------------------
\* The environment of the running application

\* the VR process starts or stops; it is looked for by a poll and by
\* _desired_output, so a change is placed at the instant before a look
RawFlip ==
    /\ Alive
    /\ PollDue \/ \E t \in Threads : pc[t] \in {"apply_begin", "apply_out2"}
    /\ raw' = ~raw
    /\ rawSince' = now
    /\ UNCHANGED <<appVars, detVars, vmVars, cfgVars, stateFile, ctlVars, obsVars>>
    /\ UNCHANGED <<now, procs, sessions, routing, vmProc>>

\* time passes while the detector sleeps, up to the next instant at which a
\* poll can report a change
Elapse ==
    /\ Alive
    /\ pc["det"] = "wait"
    /\ ~detStop
    /\ LET next == Max(nextPoll, lastChange + Debounce) IN
         /\ now < next
         /\ next <= MaxTime
         /\ now' = next
    /\ UNCHANGED <<appVars, detVars, vmVars, cfgVars, stateFile, ctlVars, obsVars>>
    /\ UNCHANGED <<raw, rawSince, procs, sessions, routing, vmProc>>

\* the VoiceMeeter process ends; only the health check looks for it, so its
\* end is placed at the instant before that look
VmDies ==
    /\ Alive
    /\ pc["enf"] = "enf_health"
    /\ vmProc
    /\ vmProc' = FALSE
    /\ UNCHANGED <<appVars, detVars, vmVars, cfgVars, stateFile, ctlVars, obsVars>>
    /\ UNCHANGED <<now, raw, rawSince, procs, sessions, routing>>

\* the mixer writes requested_mode into state.json
MixerRequest ==
    /\ Alive
    /\ stateFile.requested = "none"
    /\ \E m \in UserModes \cup {"BOGUS"} :
         stateFile' = [stateFile EXCEPT !.exists = TRUE, !.requested = m]
    /\ fallbackDue' = FALSE
    /\ UNCHANGED <<appVars, detVars, vmVars, cfgVars, envVars, ctlVars>>
    /\ UNCHANGED <<lastSwitch, detObs, noopDue, dupStart, tickAfter>>
    /\ UNCHANGED <<callObs, vmWrites>>

\* an app opens an audio session; the sessions are looked at by the
\* enumeration of switch_to, so the start is placed at the instant before it
AppStarts ==
    /\ Alive
    /\ \E t \in Threads : pc[t] = "apply_switch"
    /\ Cardinality(sessions) < MaxSessions
    /\ \E p \in ProcNames \ sessions :
         /\ sessions' = sessions \cup {p}
         /\ procs' = procs \cup {p}
    /\ UNCHANGED <<appVars, detVars, vmVars, cfgVars, stateFile, ctlVars, obsVars>>
    /\ UNCHANGED <<now, raw, rawSince, routing, vmProc>>

\* the settings tab of the mixer saves the exclusion list: config.json is
\* rewritten with the new exclude_processes; placed between two ticks
MixerSaveExclusions ==
    /\ Alive
    /\ pc["enf"] = "enf_wait"
    /\ multiTarget
    /\ \E items \in SUBSET ConfigNames :
         /\ items # cfgExclude
         /\ cfgExclude' = items
    /\ UNCHANGED <<appVars, detVars, vmVars, stateFile, envVars, ctlVars, obsVars>>
    /\ UNCHANGED <<multiTarget, userExclude, faults, mainVars>>

Next ==
    \/ SetupStart
    \/ SetupEnf
    \/ \E t \in Threads : ApplyBegin(t)
    \/ \E t \in Threads : ApplyOut2(t)
    \/ \E t \in Threads : ApplySwitch(t)
    \/ \E t \in Threads : ApplyVm(t)
    \/ \E t \in Threads : WsRead(t)
    \/ \E t \in Threads : WsWrite(t)
    \/ Poll
    \/ CbCheck
    \/ CbFallback
    \/ CbAuto
    \/ PollSleep
    \/ DetExit
    \/ EnfTick
    \/ EnfExit
    \/ CmrRead
    \/ CmrSet
    \/ CmrWrite
    \/ EnfHealth
    \/ HealthReconnect
    \/ HealthRestore
    \/ UiSetMode
    \/ UiCycle
    \/ UiQuit
    \/ QuitJoin
    \/ QuitSwitch
    \/ QuitMic
    \/ QuitDevices
    \/ QuitShutdown
    \/ QuitClose
    \/ RawFlip
    \/ Elapse
    \/ VmDies
    \/ MixerRequest
    \/ AppStarts
    \/ MixerSaveExclusions

Spec == Init /\ [][Next]_vars

\* Startup alone: on_setup and the detector, before any tick or menu action
NextStart ==
    \/ SetupStart
    \/ SetupEnf
    \/ \E t \in {"setup", "det"} : ApplyBegin(t)
    \/ \E t \in {"setup", "det"} : ApplyOut2(t)
    \/ \E t \in {"setup", "det"} : ApplySwitch(t)
    \/ \E t \in {"setup", "det"} : ApplyVm(t)
    \/ WsRead("setup")
    \/ WsWrite("setup")
    \/ Poll
    \/ CbCheck
    \/ CbAuto
    \/ PollSleep
    \/ RawFlip
    \/ Elapse

SpecStart == Init /\ [][NextStart]_vars

\* The startup with the tray menu in use from the moment the icon is visible:
\* a mode can be chosen before the detector's first poll has reported
NextEarly ==
    \/ SetupStart
    \/ SetupEnf
    \/ UiSetMode
    \/ UiCycle
    \/ \E t \in {"setup", "det", "ui"} : ApplyBegin(t)
    \/ \E t \in {"setup", "det", "ui"} : ApplyOut2(t)
    \/ \E t \in {"setup", "det", "ui"} : ApplySwitch(t)
    \/ \E t \in {"setup", "det", "ui"} : ApplyVm(t)
    \/ \E t \in {"setup", "det", "ui"} : WsRead(t)
    \/ \E t \in {"setup", "det", "ui"} : WsWrite(t)
    \/ Poll
    \/ CbCheck
    \/ CbFallback
    \/ CbAuto
    \/ PollSleep
    \/ Elapse

SpecEarly == Init /\ [][NextEarly]_vars

\* The application after a startup and a choice of mode in the tray menu in
\* which every call succeeded: the first poll has reported, the output and the
\* mic routing are switched, state.json is written, and the enforcement thread
\* waits for its first tick
InitRunning ==
    /\ faults \in BOOLEAN
    /\ userMode \in UserModes
    /\ raw \in BOOLEAN
    /\ currentOutput = DesiredOutput(userMode, raw)
    /\ micEnabled = DesiredMic(userMode)
    /\ confirmed = TRUE
    /\ lockOwner = "none"
    /\ stopFlag = FALSE
    /\ vrRunning = BoolStr(raw)
    /\ lastChange = StartTime
    /\ detStop = FALSE
    /\ nextPoll = StartTime + PollInterval
    /\ vmDll = TRUE
    /\ vmLoggedIn = TRUE
    /\ multiTarget = TRUE
    /\ cfgExclude = {"vrchat.exe"}
    /\ userExclude = {Lower(p) : p \in cfgExclude}
    /\ stateFile = [exists |-> TRUE, requested |-> "none", current |-> userMode]
    /\ now = StartTime
    /\ rawSince = 0
    /\ procs = {"Spotify.exe"}
    /\ sessions = {"Spotify.exe"}
    /\ routing = [p \in LowerNames \cup {Target} |->
                    IF p = "spotify.exe" THEN DeviceOf(DesiredOutput(userMode, raw))
                    ELSE DefaultRenderDevice]
    /\ vmProc = TRUE
    /\ pc = [t \in Threads |->
               CASE t = "setup" -> "done"
                 [] t = "det" -> "wait"
                 [] t = "enf" -> "enf_wait"
                 [] OTHER -> "ui_idle"]
    /\ ret = [t \in Threads |-> "none"]
    /\ desired = "None"
    /\ desiredMic = FALSE
    /\ wsMode = [t \in Threads |-> "none"]
    /\ req = "none"
    /\ lastSwitch = NoSwitch
    /\ prevChange = 0
    /\ prevRunning = "None"
    /\ cbCount = 1
    /\ pollCount = 1
    /\ firstPollCb = TRUE
    /\ cbRawSince = 0
    /\ missed = FALSE
    /\ diffSince = -1
    /\ fallbackDue = FALSE
    /\ noopDue = FALSE
    /\ dupStart = FALSE
    /\ events = 0
    /\ tickAfter = FALSE
    /\ quitTrace = <<>>
    /\ vmLast = NoCall
    /\ vmWrites = NoWrites
    /\ raised = [t \in Threads |-> "no"]
    /\ prevSwitch = NoSwitch
    /\ prevRouting = routing
    /\ renderDevices = {"Speakers"}
    /\ osDefault = "Speakers"
    /\ mainPc = "run"
    /\ devFile = "absent"
    /\ vmDevices = "empty"

\* ... and neither persisted file was found
InitRun ==
    /\ InitRunning
    /\ InitStarted
    /\ snapFile = "absent"
    /\ vmParams = "defaults"

\* The enforcement loop and the tray menu while the detector sleeps
NextEnforce ==
    \/ \E t \in {"enf", "ui"} : ApplyBegin(t)
    \/ \E t \in {"enf", "ui"} : ApplyOut2(t)
    \/ \E t \in {"enf", "ui"} : ApplySwitch(t)
    \/ \E t \in {"enf", "ui"} : ApplyVm(t)
    \/ WsRead("ui")
    \/ WsWrite("ui")
    \/ EnfTick
    \/ CmrRead
    \/ CmrSet
    \/ CmrWrite
    \/ EnfHealth
    \/ HealthReconnect
    \/ HealthRestore
    \/ UiSetMode
    \/ UiCycle
    \/ RawFlip
    \/ VmDies
    \/ MixerRequest

InitEnforce == InitRun /\ faults

SpecEnforce == InitEnforce /\ [][NextEnforce]_vars

\* The detector and the enforcement loop while the tray menu is left alone
NextFallback ==
    \/ \E t \in {"det", "enf"} : ApplyBegin(t)
    \/ \E t \in {"det", "enf"} : ApplyOut2(t)
    \/ \E t \in {"det", "enf"} : ApplySwitch(t)
    \/ \E t \in {"det", "enf"} : ApplyVm(t)
    \/ WsRead("det")
    \/ WsWrite("det")
    \/ Poll
    \/ CbCheck
    \/ CbFallback
    \/ CbAuto
    \/ PollSleep
    \/ EnfTick
    \/ CmrRead
    \/ CmrSet
    \/ CmrWrite
    \/ EnfHealth
    \/ HealthReconnect
    \/ HealthRestore
    \/ RawFlip
    \/ Elapse
    \/ VmDies
    \/ MixerRequest

\* a run in which svcl.exe and VoiceMeeter do not fail
InitFallback == InitRun /\ ~faults

SpecFallback == InitFallback /\ [][NextFallback]_vars

\* The enforcement loop alone, against the machine and the mixer's settings
\* tab, while no mode is requested
NextTick ==
    \/ ApplyBegin("enf")
    \/ ApplyOut2("enf")
    \/ ApplySwitch("enf")
    \/ ApplyVm("enf")
    \/ EnfTick
    \/ CmrRead
    \/ EnfHealth
    \/ HealthReconnect
    \/ HealthRestore
    \/ RawFlip
    \/ VmDies
    \/ AppStarts
    \/ MixerSaveExclusions

InitTick == InitRun /\ faults

\* The enforcement loop alone while the mixer writes mode requests, valid or
\* not, into state.json
NextRequest ==
    \/ ApplyBegin("enf")
    \/ ApplyOut2("enf")
    \/ ApplySwitch("enf")
    \/ ApplyVm("enf")
    \/ EnfTick
    \/ CmrRead
    \/ CmrSet
    \/ CmrWrite
    \/ EnfHealth
    \/ MixerRequest
    \/ RawFlip

SpecRequest == InitRun /\ [][NextRequest]_vars

SpecTick == InitTick /\ [][NextTick]_vars

\* Quit from the tray menu while the enforcement loop runs and the detector
\* sleeps
NextQuit ==
    \/ ApplyBegin("enf")
    \/ ApplyOut2("enf")
    \/ ApplySwitch("enf")
    \/ ApplyVm("enf")
    \/ DetExit
    \/ EnfTick
    \/ EnfExit
    \/ CmrRead
    \/ EnfHealth
    \/ HealthReconnect
    \/ HealthRestore
    \/ UiQuit
    \/ QuitJoin
    \/ QuitSwitch
    \/ QuitMic
    \/ QuitDevices
    \/ QuitShutdown
    \/ QuitClose
    \/ RawFlip

InitQuit == InitRun

SpecQuit == InitQuit /\ [][NextQuit]_vars

\* Quit from the tray menu while the detector polls and runs its callback
NextQuitDet ==
    \/ ApplyBegin("det")
    \/ ApplyOut2("det")
    \/ ApplySwitch("det")
    \/ ApplyVm("det")
    \/ WsRead("det")
    \/ WsWrite("det")
    \/ Poll
    \/ CbCheck
    \/ CbFallback
    \/ CbAuto
    \/ PollSleep
    \/ DetExit
    \/ UiQuit
    \/ QuitJoin
    \/ QuitSwitch
    \/ QuitMic
    \/ QuitDevices
    \/ QuitShutdown
    \/ QuitClose
    \/ RawFlip
    \/ Elapse

\* Every statement of _quit returns: the join has a timeout, subprocess.run
\* has a timeout, the sleeps are fixed.  The detector's wait returns once its
\* stop event is set.  Nothing is assumed of a callback in flight.
QuitFairness ==
    /\ WF_vars(QuitJoin)
    /\ WF_vars(QuitSwitch)
    /\ WF_vars(QuitMic)
    /\ WF_vars(QuitDevices)
    /\ WF_vars(QuitShutdown)
    /\ WF_vars(QuitClose)
    /\ WF_vars(DetExit)

SpecQuitDet == InitQuit /\ [][NextQuitDet]_vars /\ QuitFairness

\* Quit from the tray menu while both loops run in mode AUTO
NextStop ==
    \/ \E t \in {"det", "enf"} : ApplyBegin(t)
    \/ \E t \in {"det", "enf"} : ApplyOut2(t)
    \/ \E t \in {"det", "enf"} : ApplySwitch(t)
    \/ \E t \in {"det", "enf"} : ApplyVm(t)
    \/ Poll
    \/ CbCheck
    \/ CbAuto
    \/ PollSleep
    \/ DetExit
    \/ EnfTick
    \/ EnfExit
    \/ CmrRead
    \/ EnfHealth
    \/ HealthReconnect
    \/ HealthRestore
    \/ UiQuit
    \/ QuitJoin
    \/ QuitSwitch
    \/ QuitMic
    \/ QuitDevices
    \/ QuitShutdown
    \/ QuitClose
    \/ RawFlip
    \/ Elapse

\* Every statement of the two loops returns: the lock is released at the end
\* of each _apply, subprocess.run has a timeout, the engine calls and the
\* sleeps return, and a wait on a stop event returns once the event is set.
\* Nothing is assumed of _quit.
LoopFairness ==
    /\ \A t \in {"det", "enf"} :
         /\ WF_vars(ApplyBegin(t))
         /\ WF_vars(ApplyOut2(t))
         /\ WF_vars(ApplySwitch(t))
         /\ WF_vars(ApplyVm(t))
    /\ WF_vars(CbCheck)
    /\ WF_vars(CbAuto)
    /\ WF_vars(PollSleep)
    /\ WF_vars(DetExit)
    /\ WF_vars(EnfExit)
    /\ WF_vars(CmrRead)
    /\ WF_vars(EnfHealth)
    /\ WF_vars(HealthReconnect)
    /\ WF_vars(HealthRestore)

InitStop == InitQuit /\ ~faults /\ userMode = "AUTO"

SpecStop == InitStop /\ [][NextStop]_vars /\ LoopFairness

-----------------------------------------------------------------------------
\* Exceptions that no inner try block catches, in the two loop threads

\* loops without a try block around the body: the exception ends the thread
HandlerMut(t) == "dead"

\* except Exception of _poll and of _enforce_loop: the error is logged and the
\* wait of the loop is next
Handler(t) == IF t = "det" THEN "poll_end" ELSE "enf_wait"

\* calls that can raise past their own try blocks: subprocess.run of
\* _svcl_set (it catches FileNotFoundError and TimeoutExpired only) inside
\* _apply, and Popen in _check_voicemeeter_health
RaisePoints(t) ==
    IF t = "det" THEN {"apply_switch"} ELSE {"apply_switch", "enf_health"}

\* the call at which thread t stands raises; the with block of _apply gives
\* the lock back.  Inside _check_mode_request its own except clause catches
\* and _apply(force=True) is next.
Raise(t) ==
    /\ pc[t] \in RaisePoints(t)
    /\ Alive
    /\ faults
    /\ lockOwner' = IF lockOwner = t THEN "none" ELSE lockOwner
    /\ IF t = "enf" /\ ret[t] = "cmr_write"
       THEN /\ pc' = [pc EXCEPT ![t] = "apply_begin"]
            /\ ret' = [ret EXCEPT ![t] = "enf_health"]
            /\ UNCHANGED raised
       ELSE /\ pc' = [pc EXCEPT ![t] = Handler(t)]
            /\ ret' = [ret EXCEPT ![t] = "none"]
            /\ raised' = [raised EXCEPT ![t] = "yes"]
    /\ desired' = "None"
    /\ desiredMic' = FALSE
    /\ UNCHANGED <<userMode, currentOutput, micEnabled, confirmed, stopFlag>>
    /\ UNCHANGED <<detVars, vmVars, cfgVars, stateFile, envVars>>
    /\ UNCHANGED <<wsMode, req, runObs, quitTrace, vmLast, vmWrites>>

\* the poll loop and the enforcement loop with failing and raising calls
NextFault ==
    \/ \E t \in {"det", "enf"} : ApplyBegin(t)
    \/ \E t \in {"det", "enf"} : ApplyOut2(t)
    \/ \E t \in {"det", "enf"} : ApplySwitch(t)
    \/ \E t \in {"det", "enf"} : ApplyVm(t)
    \/ \E t \in {"det", "enf"} : Raise(t)
    \/ WsRead("det")
    \/ WsWrite("det")
    \/ Poll
    \/ CbCheck
    \/ CbFallback
    \/ CbAuto
    \/ PollSleep
    \/ EnfTick
    \/ CmrRead
    \/ EnfHealth
    \/ RawFlip
    \/ Elapse

InitFault == InitRun /\ faults

SpecFault == InitFault /\ [][NextFault]_vars

-----------------------------------------------------------------------------
\* A VoiceMeeterRemote alone, called with every outcome of the native library

\* one call of method m
VmOp(m) ==
    /\ \E c \in LoginResults, o \in CallResults :
         LET r == VmCall(m, VmState, c, o) IN
         /\ vmDll' = r.dll
         /\ vmLoggedIn' = r.li
         /\ vmLast' = r.call
    /\ UNCHANGED <<appVars, detVars, cfgVars, stateFile, envVars, ctlVars>>
    /\ UNCHANGED <<runObs, quitTrace, vmWrites, raised>>
    /\ UNCHANGED engVars

InitVm ==
    /\ InitCommon
    /\ multiTarget = TRUE
    /\ cfgExclude = {"vrchat.exe"}
    /\ userExclude = {Lower(p) : p \in cfgExclude}
    /\ procs = {"Spotify.exe"}
    /\ sessions = {"Spotify.exe"}
    /\ stateFile = [exists |-> FALSE, requested |-> "none", current |-> "none"]
    /\ pc = [t \in Threads |-> "off"]

NextVm == \E m \in VmMethods : VmOp(m)

SpecVm == InitVm /\ [][NextVm]_vars

-----------------------------------------------------------------------------
\* main(): the restore of vm_devices.json and vm_state.json before app.run()

\* what a persisted file can hold: nothing, text that is not JSON, a JSON
\* object of strings or numbers, a JSON object with values of another type, a
\* JSON array, the JSON value null
FileKinds == {"absent", "empty", "malformed", "object", "object_bad_values",
              "array", "null"}

\* the values that have .items() and take a string key
IsJsonObject(kind) == kind \in {"empty", "defaults", "object", "object_bad_values"}

\* if path.exists(): try: json.load(f) except Exception: keep the default
LoadJson(kind, default) ==
    IF kind \in {"absent", "empty", "malformed"} THEN default ELSE kind

\* vm_devices = {} or the content of vm_devices.json
MainReadDevices ==
    /\ mainPc = "read_devices"
    /\ vmDevices' = LoadJson(devFile, "empty")
    /\ mainPc' = "set_devices"
    /\ UNCHANGED <<appVars, detVars, vmVars, stateFile, envVars, ctlVars, obsVars>>
    /\ UNCHANGED <<multiTarget, userExclude, cfgExclude, faults, bootVars>>
    /\ UNCHANGED <<devFile, snapFile, vmParams, snapVars>>
    /\ UNCHANGED prevVars

\* for key, name in vm_devices.items(): set_string_param(key.device.wdm, name);
\* a value that is not a string raises inside set_string_param's try block
MainSetDevices ==
    /\ mainPc = "set_devices"
    /\ IF ~IsJsonObject(vmDevices)
       THEN /\ mainPc' = "crashed"
            /\ UNCHANGED vmVars
       ELSE /\ mainPc' = "read_state"
            /\ \E s \in (CASE vmDevices = "empty" -> {VmState}
                           [] vmDevices = "object" -> VmResults(VmState)
                           [] OTHER -> {VmSet(VmState, c, "raise") :
                                          c \in VmLogins(VmState, TRUE)}) :
                 vmDll' = s.dll /\ vmLoggedIn' = s.li
    /\ mutex' = IF mainPc' = "crashed" THEN "free" ELSE mutex
    /\ UNCHANGED <<appVars, detVars, stateFile, envVars, ctlVars, obsVars>>
    /\ UNCHANGED <<multiTarget, userExclude, cfgExclude, faults>>
    /\ UNCHANGED <<otherPc, cfgFile, cfgFields, dialog>>
    /\ UNCHANGED <<devFile, snapFile, vmDevices, vmParams, snapVars>>
    /\ UNCHANGED engVars
    /\ UNCHANGED prevVars

\* vm_params = dict(VM_DEFAULTS) or the content of vm_state.json
MainReadState ==
    /\ mainPc = "read_state"
    /\ vmParams' = LoadJson(snapFile, "defaults")
    /\ pending' = CASE vmParams' = "defaults" -> VM_DEFAULTS
                    [] IsJsonObject(vmParams') -> snap
                    [] OTHER -> NoEntries
    /\ mainPc' = "set_params"
    /\ UNCHANGED <<appVars, detVars, vmVars, stateFile, envVars, ctlVars, obsVars>>
    /\ UNCHANGED <<multiTarget, userExclude, cfgExclude, faults, bootVars>>
    /\ UNCHANGED <<devFile, snapFile, vmDevices, snap>>
    /\ UNCHANGED prevVars

\* vm_params["Strip[0].B1"] = 1.0 and the other routing flags
MainSetParams ==
    /\ mainPc = "set_params"
    /\ IF ~IsJsonObject(vmParams)
       THEN /\ mainPc' = "crashed"
            /\ mutex' = "free"
            /\ UNCHANGED pending
       ELSE /\ pending' = ForceFlags(pending)
            /\ mainPc' = IF DOMAIN pending' = {} THEN "reapply" ELSE "set_param"
            /\ UNCHANGED mutex
    /\ UNCHANGED <<appVars, detVars, vmVars, stateFile, envVars, ctlVars, obsVars>>
    /\ UNCHANGED <<multiTarget, userExclude, cfgExclude, faults>>
    /\ UNCHANGED <<otherPc, cfgFile, cfgFields, dialog>>
    /\ UNCHANGED <<devFile, snapFile, vmDevices, vmParams, snap>>
    /\ UNCHANGED prevVars

\* one turn of for param, value in vm_params.items(): set_param(param,
\* float(value)); an entry whose value float() rejects is skipped
MainSetParam ==
    /\ mainPc = "set_param"
    /\ LET p == FirstKey(pending)
           f == Float(pending[p])
       IN
       /\ IF f = <<>>
          THEN UNCHANGED vmVars
          ELSE \E s \in VmResults(VmState) :
                 /\ vmDll' = s.dll
                 /\ vmLoggedIn' = s.li
                 /\ engine' = EngineSet(engine, p, f[1], s.ok /\ vmProc)
                 /\ lastSet' = [lastSet EXCEPT ![p] = f]
       /\ pending' = Without(pending, p)
    /\ mainPc' = IF DOMAIN pending' = {} THEN "reapply" ELSE "set_param"
    /\ UNCHANGED <<appVars, detVars, stateFile, envVars, ctlVars, obsVars>>
    /\ UNCHANGED <<multiTarget, userExclude, cfgExclude, faults, bootVars>>
    /\ UNCHANGED <<devFile, snapFile, vmDevices, vmParams, snap>>
    /\ UNCHANGED prevVars

\* the two routing flags are set a second time; app.run() is next
MainReapply ==
    /\ mainPc = "reapply"
    /\ mainPc' = "run"
    /\ \E s1 \in VmResults(VmState) :
       \E s2 \in VmResults(s1) :
         /\ vmDll' = s2.dll
         /\ vmLoggedIn' = s2.li
         /\ engine' = EngineSet(EngineSet(engine, "Strip[0].B1", FlagValue,
                                          s1.ok /\ vmProc),
                                "Strip[3].B2", FlagValue, s2.ok /\ vmProc)
         /\ lastSet' = [lastSet EXCEPT !["Strip[0].B1"] = <<FlagValue>>,
                                       !["Strip[3].B2"] = <<FlagValue>>]
    /\ UNCHANGED <<appVars, detVars, stateFile, envVars, ctlVars, obsVars>>
    /\ UNCHANGED <<multiTarget, userExclude, cfgExclude, faults, bootVars>>
    /\ UNCHANGED <<devFile, snapFile, vmDevices, vmParams, snapVars>>
    /\ UNCHANGED prevVars

\* main() after VRAudioSwitcher(config), over every content of the two files
InitMain ==
    /\ InitObjects
    /\ raw = FALSE
    /\ mainPc = "read_devices"
    /\ devFile \in FileKinds
    /\ snapFile \in FileKinds
    /\ vmDevices = "empty"
    /\ vmParams = "defaults"
    /\ mutex = "self"
    /\ otherPc = "off"
    /\ cfgFile = "object"
    /\ cfgFields = ConfigFields
    /\ dialog = "none"
    /\ snap \in SnapsOf(snapFile)
    /\ pending = NoEntries
    /\ engine = EngineFresh
    /\ lastSet = NoneSet
    /\ multiTarget = TRUE
    /\ cfgExclude = {"vrchat.exe"}
    /\ userExclude = {Lower(p) : p \in cfgExclude}
    /\ procs = {"Spotify.exe"}
    /\ sessions = {"Spotify.exe"}
    /\ stateFile = [exists |-> FALSE, requested |-> "none", current |-> "none"]
    /\ pc = [t \in Threads |-> "off"]

NextMain ==
    \/ MainReadDevices
    \/ MainSetDevices
    \/ MainReadState
    \/ MainSetParams
    \/ MainSetParam
    \/ MainReapply

SpecMain == InitMain /\ [][NextMain]_vars

-----------------------------------------------------------------------------
\* The enforcement loop of an application that was started with a parameter
\* snapshot on disk, while VoiceMeeter can die

\* vm_params of main() before the routing flags are forced
LoadedParams == IF snapFile \in Loadable THEN snap ELSE VM_DEFAULTS

\* the last set_param of each parameter made by main()
StartedLastSet ==
    [p \in ParamNames |->
        IF p \in RoutingFlags THEN <<FlagValue>>
        ELSE IF p \in DOMAIN LoadedParams THEN Float(LoadedParams[p])
        ELSE <<>>]

InitRestart ==
    /\ InitRunning
    /\ userMode = "AUTO"
    /\ raw = FALSE
    /\ mutex = "self"
    /\ otherPc = "off"
    /\ cfgFile = "object"
    /\ cfgFields = ConfigFields
    /\ dialog = "none"
    /\ snapFile \in Loadable \cup {"absent"}
    /\ snap \in SnapsOf(snapFile)
    /\ vmParams = LoadJson(snapFile, "defaults")
    /\ pending = NoEntries
    /\ lastSet = StartedLastSet
    /\ engine = [p \in ParamNames |->
                   IF lastSet[p] = <<>> THEN EngineFresh[p] ELSE lastSet[p][1]]

NextRestart ==
    \/ ApplyBegin("enf")
    \/ ApplyOut2("enf")
    \/ ApplySwitch("enf")
    \/ ApplyVm("enf")
    \/ EnfTick
    \/ CmrRead
    \/ EnfHealth
    \/ HealthReconnect
    \/ HealthRestore
    \/ HealthSetParam
    \/ VmDies

SpecRestart == InitRestart /\ [][NextRestart]_vars

-----------------------------------------------------------------------------
\* main() from its first line: the single-instance mutex, the update prompt,
\* config.json, the launch of VoiceMeeter and VRAudioSwitcher(config)

\* a CreateMutexW that never reports ERROR_ALREADY_EXISTS
AlreadyExistsMut == FALSE

\* GetLastError() == 183 after CreateMutexW: the named mutex exists
AlreadyExists == mutex # "free"

\* positions at which the process has ended
Ended == {"exit0", "exit1", "crashed"}

\* mutex = acquire_single_instance(); if None: showinfo and sys.exit(0)
MainMutex ==
    /\ mainPc = "mutex"
    /\ IF AlreadyExists
       THEN /\ dialog' = "info"
            /\ mainPc' = "exit0"
            /\ UNCHANGED mutex
       ELSE /\ mutex' = "self"
            /\ mainPc' = "update"
            /\ UNCHANGED dialog
    /\ UNCHANGED <<appVars, detVars, vmVars, stateFile, envVars, ctlVars, obsVars>>
    /\ UNCHANGED <<multiTarget, userExclude, cfgExclude, faults>>
    /\ UNCHANGED <<devFile, snapFile, vmDevices, vmParams, snapVars>>
    /\ UNCHANGED <<otherPc, cfgFile, cfgFields>>
    /\ UNCHANGED prevVars

\* if not check_and_prompt(): sys.exit(0)
MainUpdate ==
    /\ mainPc = "update"
    /\ \E go \in BOOLEAN :
         /\ mainPc' = IF go THEN "config" ELSE "exit0"
         /\ mutex' = IF go THEN mutex ELSE "free"
    /\ UNCHANGED <<appVars, detVars, vmVars, stateFile, envVars, ctlVars, obsVars>>
    /\ UNCHANGED <<multiTarget, userExclude, cfgExclude, faults>>
    /\ UNCHANGED <<devFile, snapFile, vmDevices, vmParams, snapVars>>
    /\ UNCHANGED <<otherPc, cfgFile, cfgFields, dialog>>
    /\ UNCHANGED prevVars

\* the keys main() looks for before it builds the application
CheckedFields == {"vr_device"}

\* config.json: _show_error_and_exit when it is absent or a checked key is
\* missing; json.load is not inside a try block
MainConfig ==
    /\ mainPc = "config"
    /\ CASE cfgFile = "absent" ->
              dialog' = "error" /\ mainPc' = "exit1"
         [] cfgFile = "malformed" ->
              dialog' = dialog /\ mainPc' = "crashed"
         [] OTHER ->
              IF CheckedFields \subseteq cfgFields
              THEN dialog' = dialog /\ mainPc' = "ensure_vm"
              ELSE dialog' = "error" /\ mainPc' = "exit1"
    /\ mutex' = IF mainPc' \in Ended THEN "free" ELSE mutex
    /\ UNCHANGED <<appVars, detVars, vmVars, stateFile, envVars, ctlVars, obsVars>>
    /\ UNCHANGED <<multiTarget, userExclude, cfgExclude, faults>>
    /\ UNCHANGED <<devFile, snapFile, vmDevices, vmParams, snapVars>>
    /\ UNCHANGED <<otherPc, cfgFile, cfgFields>>
    /\ UNCHANGED prevVars

\* VoiceMeeter is launched when no VoiceMeeter process runs and find_exe
\* finds the executable
MainEnsureVm ==
    /\ mainPc = "ensure_vm"
    /\ \E found \in BOOLEAN :
         IF ~VmRunning /\ found
         THEN vmProc' = TRUE /\ engine' = EngineFresh
         ELSE vmProc' = vmProc /\ engine' = engine
    /\ mainPc' = "construct"
    /\ UNCHANGED <<appVars, detVars, vmDll, vmLoggedIn, lastSet, stateFile>>
    /\ UNCHANGED <<now, raw, rawSince, procs, sessions, routing>>
    /\ UNCHANGED <<ctlVars, obsVars>>
    /\ UNCHANGED <<multiTarget, userExclude, cfgExclude, faults>>
    /\ UNCHANGED <<devFile, snapFile, vmDevices, vmParams, snapVars, bootVars>>
    /\ UNCHANGED prevVars

\* the keys AudioSwitcher.__init__ and SteamVRDetector.__init__ subscript
ConstructorFields == {"svcl_path", "vr_device", "steamvr_process",
                      "poll_interval_seconds", "debounce_seconds"}

\* app = VRAudioSwitcher(config): KeyError for a missing key,
\* FileNotFoundError when svcl.exe is not at svcl_path
MainConstruct ==
    /\ mainPc = "construct"
    /\ \E svclExists \in BOOLEAN :
         IF ConstructorFields \subseteq cfgFields /\ svclExists
         THEN /\ multiTarget' = ("exclude_processes" \in cfgFields)
              /\ userExclude' = IF multiTarget'
                                THEN {Lower(p) : p \in cfgExclude} ELSE {}
              /\ mainPc' = "read_devices"
              /\ UNCHANGED mutex
         ELSE /\ mainPc' = "crashed"
              /\ mutex' = "free"
              /\ UNCHANGED <<multiTarget, userExclude>>
    /\ UNCHANGED <<appVars, detVars, vmVars, stateFile, envVars, ctlVars, obsVars>>
    /\ UNCHANGED <<cfgExclude, faults>>
    /\ UNCHANGED <<devFile, snapFile, vmDevices, vmParams, snapVars>>
    /\ UNCHANGED <<otherPc, cfgFile, cfgFields, dialog>>
    /\ UNCHANGED prevVars

\* app.run(): the tray icon runs and calls on_setup
MainRun ==
    /\ mainPc = "run"
    /\ pc["setup"] = "off"
    /\ pc' = [pc EXCEPT !["setup"] = "setup_start", !["ui"] = "ui_idle"]
    /\ UNCHANGED <<appVars, detVars, vmVars, cfgVars, stateFile, envVars, obsVars>>
    /\ UNCHANGED <<ret, desired, desiredMic, wsMode, req>>

\* another switcher process is started: its main() calls
\* acquire_single_instance and exits when the mutex exists
OtherStarts ==
    /\ otherPc = "off"
    /\ IF AlreadyExists
       THEN otherPc' = "exited" /\ mutex' = mutex
       ELSE otherPc' = "running" /\ mutex' = "other"
    /\ UNCHANGED <<appVars, detVars, vmVars, stateFile, envVars, ctlVars, obsVars>>
    /\ UNCHANGED <<multiTarget, userExclude, cfgExclude, faults>>
    /\ UNCHANGED <<mainPc, devFile, snapFile, vmDevices, vmParams, snapVars>>
    /\ UNCHANGED <<cfgFile, cfgFields, dialog>>
    /\ UNCHANGED prevVars

\* the other process ends; its handle of the mutex is closed
OtherExits ==
    /\ otherPc = "running"
    /\ otherPc' = "exited"
    /\ mutex' = "free"
    /\ UNCHANGED <<appVars, detVars, vmVars, stateFile, envVars, ctlVars, obsVars>>
    /\ UNCHANGED <<multiTarget, userExclude, cfgExclude, faults>>
    /\ UNCHANGED <<mainPc, devFile, snapFile, vmDevices, vmParams, snapVars>>
    /\ UNCHANGED <<cfgFile, cfgFields, dialog>>
    /\ UNCHANGED prevVars

\* the process is started with any config.json, with or without a running
\* VoiceMeeter; neither persisted file exists
InitBoot ==
    /\ InitObjects
    /\ raw = FALSE
    /\ mainPc = "mutex"
    /\ devFile = "absent"
    /\ snapFile = "absent"
    /\ vmDevices = "empty"
    /\ vmParams = "defaults"
    /\ mutex = "free"
    /\ otherPc = "off"
    /\ cfgFile \in {"absent", "malformed", "object"}
    /\ cfgFields \in (IF cfgFile = "object" THEN SUBSET ConfigFields ELSE {{}})
    /\ dialog = "none"
    /\ snap = NoEntries
    /\ pending = NoEntries
    /\ engine = EngineFresh
    /\ lastSet = NoneSet
    /\ multiTarget = FALSE
    /\ cfgExclude = {"vrchat.exe"}
    /\ userExclude = {}
    /\ procs = {"Spotify.exe"}
    /\ sessions = {"Spotify.exe"}
    /\ stateFile = [exists |-> FALSE, requested |-> "none", current |-> "none"]
    /\ pc = [t \in Threads |-> "off"]

NextBoot ==
    \/ MainMutex
    \/ MainUpdate
    \/ MainConfig
    \/ MainEnsureVm
    \/ MainConstruct
    \/ MainReadDevices
    \/ MainSetDevices
    \/ MainReadState
    \/ MainSetParams
    \/ MainSetParam
    \/ MainReapply
    \/ MainRun
    \/ SetupStart
    \/ ApplyBegin("setup")
    \/ ApplyOut2("setup")
    \/ ApplySwitch("setup")
    \/ ApplyVm("setup")
    \/ WsRead("setup")
    \/ WsWrite("setup")
    \/ SetupEnf
    \/ OtherStarts
    \/ OtherExits

SpecBoot == InitBoot /\ [][NextBoot]_vars

-----------------------------------------------------------------------------
\* updater.restart_app(), called by check_and_prompt() after a successful
\* update, while main() holds the single-instance mutex

\* subprocess.Popen([python] + sys.argv): the new process exists; the caller
\* goes on to time.sleep(1)
RestartApp ==
    /\ mainPc = "update"
    /\ otherPc = "off"
    /\ otherPc' = "launched"
    /\ mainPc' = "restart_sleep"
    /\ UNCHANGED <<appVars, detVars, vmVars, stateFile, envVars, ctlVars, obsVars>>
    /\ UNCHANGED <<multiTarget, userExclude, cfgExclude, faults>>
    /\ UNCHANGED <<devFile, snapFile, vmDevices, vmParams, snapVars>>
    /\ UNCHANGED <<mutex, cfgFile, cfgFields, dialog>>
    /\ UNCHANGED prevVars

\* time.sleep(1) is over; sys.exit(0) ends the process and its handle of the
\* mutex is closed
RestartExit ==
    /\ mainPc = "restart_sleep"
    /\ mainPc' = "exit0"
    /\ mutex' = "free"
    /\ UNCHANGED <<appVars, detVars, vmVars, stateFile, envVars, ctlVars, obsVars>>
    /\ UNCHANGED <<multiTarget, userExclude, cfgExclude, faults>>
    /\ UNCHANGED <<devFile, snapFile, vmDevices, vmParams, snapVars>>
    /\ UNCHANGED <<otherPc, cfgFile, cfgFields, dialog>>
    /\ UNCHANGED prevVars

\* main() of the launched process: acquire_single_instance(), and
\* "Already running!" with sys.exit(0) when the mutex exists
NewMain ==
    /\ otherPc = "launched"
    /\ IF AlreadyExists
       THEN otherPc' = "exited" /\ mutex' = mutex
       ELSE otherPc' = "running" /\ mutex' = "other"
    /\ UNCHANGED <<appVars, detVars, vmVars, stateFile, envVars, ctlVars, obsVars>>
    /\ UNCHANGED <<multiTarget, userExclude, cfgExclude, faults>>
    /\ UNCHANGED <<mainPc, devFile, snapFile, vmDevices, vmParams, snapVars>>
    /\ UNCHANGED <<cfgFile, cfgFields, dialog>>
    /\ UNCHANGED prevVars

NextUpdate ==
    \/ MainMutex
    \/ MainUpdate
    \/ RestartApp
    \/ RestartExit
    \/ NewMain
    \/ MainConfig
    \/ MainEnsureVm
    \/ MainConstruct
    \/ MainReadDevices
    \/ MainSetDevices
    \/ MainReadState
    \/ MainSetParams
    \/ MainSetParam
    \/ MainReapply
    \/ MainRun
    \/ SetupStart
    \/ ApplyBegin("setup")
    \/ ApplyOut2("setup")
    \/ ApplySwitch("setup")
    \/ ApplyVm("setup")
    \/ WsRead("setup")
    \/ WsWrite("setup")
    \/ SetupEnf

SpecUpdate == InitBoot /\ [][NextUpdate]_vars

-----------------------------------------------------------------------------
\* The setup wizard's finish step, then the switcher's start

\* the keys of the config dict SetupWizard._finish_thread dumps
WizardFields == {"poll_interval_seconds", "vr_process", "exclude_processes",
                 "svcl_path", "vr_device", "debounce_seconds", "music_strip",
                 "vrchat_mic_confirmed"}

\* json.dump(config, f) into config.json; an exception of open or dump is
\* collected in errors and leaves the file as it was
WizardFinish ==
    /\ mainPc = "wizard"
    /\ mainPc' = "mutex"
    /\ \E written \in BOOLEAN :
         IF written
         THEN cfgFile' = "object" /\ cfgFields' = WizardFields
         ELSE UNCHANGED <<cfgFile, cfgFields>>
    /\ UNCHANGED <<appVars, detVars, vmVars, stateFile, envVars, ctlVars, obsVars>>
    /\ UNCHANGED <<multiTarget, userExclude, cfgExclude, faults>>
    /\ UNCHANGED <<devFile, snapFile, vmDevices, vmParams, snapVars>>
    /\ UNCHANGED <<mutex, otherPc, dialog>>
    /\ UNCHANGED prevVars

\* the wizard is at its finish step, with any config.json of an earlier
\* installation; the switcher is not running
InitWizard ==
    /\ InitObjects
    /\ raw = FALSE
    /\ mainPc = "wizard"
    /\ devFile = "absent"
    /\ snapFile = "absent"
    /\ vmDevices = "empty"
    /\ vmParams = "defaults"
    /\ mutex = "free"
    /\ otherPc = "off"
    /\ cfgFile \in {"absent", "malformed", "object"}
    /\ cfgFields \in (IF cfgFile = "object" THEN SUBSET ConfigFields ELSE {{}})
    /\ dialog = "none"
    /\ snap = NoEntries
    /\ pending = NoEntries
    /\ engine = EngineFresh
    /\ lastSet = NoneSet
    /\ multiTarget = FALSE
    /\ cfgExclude = {"vrchat.exe"}
    /\ userExclude = {}
    /\ procs = {"Spotify.exe"}
    /\ sessions = {"Spotify.exe"}
    /\ stateFile = [exists |-> FALSE, requested |-> "none", current |-> "none"]
    /\ pc = [t \in Threads |-> "off"]

NextWizard ==
    \/ WizardFinish
    \/ MainMutex
    \/ MainUpdate
    \/ MainConfig
    \/ MainEnsureVm
    \/ MainConstruct
    \/ MainReadDevices
    \/ MainSetDevices
    \/ MainReadState
    \/ MainSetParams
    \/ MainSetParam
    \/ MainReapply
    \/ MainRun
    \/ SetupStart
    \/ ApplyBegin("setup")
    \/ ApplyOut2("setup")
    \/ ApplySwitch("setup")
    \/ ApplyVm("setup")
    \/ WsRead("setup")
    \/ WsWrite("setup")
    \/ SetupEnf

SpecWizard == InitWizard /\ [][NextWizard]_vars

-----------------------------------------------------------------------------
\* Properties of the mode table and of switch_to (checked under SpecSwitch)

\* C1: the desired output is DESKTOP in mode DESKTOP, VR in modes VR and
\* SILENT_VR, and in mode AUTO it is VR exactly when the VR process is
\* present; the desired mic routing is on exactly in mode VR.
C1_ModeTable ==
    /\ pc["ui"] \in {"apply_switch", "apply_vm"} =>
          /\ desired \in AudioOutputs
          /\ userMode = "DESKTOP" => desired = "DESKTOP"
          /\ userMode \in {"VR", "SILENT_VR"} => desired = "VR"
          /\ userMode = "AUTO" => (desired = "VR" <=> raw)
    /\ pc["ui"] = "apply_vm" => (desiredMic <=> userMode = "VR")

\* SILENT_VR without the VR process: output VR, mic routing off
C1_Witness ==
    /\ pc["ui"] = "apply_vm"
    /\ userMode = "SILENT_VR"
    /\ ~raw
    /\ desired = "VR"
    /\ ~desiredMic

\* the names excluded by the fixed list or by config.json; names match when
\* they are equal up to case
Excluded(n) == \E e \in SYSTEM_EXCLUDE \cup cfgExclude : Lower(e) = Lower(n)

\* C7: in multi-target mode switch_to issues a redirect for exactly the audio
\* apps that are not excluded (compared without regard to case), one per
\* process, and never for an excluded process.
C7_RedirectSet ==
    lastSwitch.called /\ multiTarget =>
        /\ \A c \in lastSwitch.cmds : ~Excluded(c)
        /\ \A c \in lastSwitch.cmds : \E p \in sessions : Lower(p) = Lower(c)
        /\ \A c1, c2 \in lastSwitch.cmds : Lower(c1) = Lower(c2) => c1 = c2
        /\ lastSwitch.enumOk =>
              \A p \in sessions : ~Excluded(p) =>
                  \E c \in lastSwitch.cmds : Lower(c) = Lower(p)
        /\ ~lastSwitch.enumOk => lastSwitch.cmds = {}

\* the spec's scenario, with the user exclusion of an app the fixed list lacks
C7_Witness ==
    /\ lastSwitch.called /\ multiTarget
    /\ cfgExclude = {"Discord.exe"}
    /\ sessions = {"Spotify.exe", "Discord.exe", "VRChat.exe"}
    /\ lastSwitch.dev = VrDevice
    /\ lastSwitch.cmds = {"spotify.exe"}

Succeeded(o) == o \in {"1 item", "items found"}

\* C8: switch_to returns true exactly when at least one redirect succeeded:
\* false for an empty redirect set, a failed enumeration, and when every
\* redirect fails or times out.
C8_ReturnValue ==
    lastSwitch.called =>
        /\ lastSwitch.ret <=>
              \E p \in lastSwitch.cmds : Succeeded(lastSwitch.res[p])
        /\ lastSwitch.cmds = {} => ~lastSwitch.ret
        /\ (multiTarget /\ ~lastSwitch.enumOk) => ~lastSwitch.ret
        /\ DOMAIN lastSwitch.res = lastSwitch.cmds

\* two redirects issued, one timed out and one matched: returns true
C8_Witness ==
    /\ lastSwitch.called
    /\ lastSwitch.cmds = {"spotify.exe", "discord.exe"}
    /\ lastSwitch.res["spotify.exe"] = "timeout"
    /\ lastSwitch.res["discord.exe"] = "1 item"
    /\ lastSwitch.ret

-----------------------------------------------------------------------------
\* Properties of the detector (checked under SpecDet)

\* C3: once a transition was reported, a raw change polled less than Debounce
\* seconds after it invokes no callback: any two consecutive callbacks are at
\* least Debounce seconds apart.
C3_CallbacksDebounced == cbCount >= 2 => lastChange - prevChange >= Debounce

\* a poll has just seen a raw change inside the window and reported nothing
C3_Witness ==
    /\ pc["det"] = "wait"
    /\ cbCount >= 1
    /\ BoolStr(raw) # vrRunning
    /\ rawSince > lastChange
    /\ now - lastChange < Debounce
    /\ nextPoll = now + PollInterval

C5_FirstPollSilent == pollCount >= 1 => ~firstPollCb

\* C6: a transition is reported only when the raw value has differed from the
\* last reported state continuously for at least Debounce seconds (stated for
\* the reports after the first one).
C6_ReportedOnlyIfSustained == cbCount >= 2 => lastChange - cbRawSince >= Debounce

-----------------------------------------------------------------------------
\* Properties of the running application

\* C2: when the detector reports the change from present to absent while the
\* mode is VR or SILENT_VR, and no menu action or mixer request is made after
\* that change, the forced mode is gone (the claim: the mode is AUTO) at the
\* forced apply of every enforcement tick that begins after the callback has
\* returned.  Stated in its weakest form: the mode is then neither VR nor
\* SILENT_VR.
C2_FallbackBeforeTick ==
    (/\ fallbackDue
     /\ tickAfter
     /\ pc["enf"] = "apply_begin"
     /\ Force("enf")) => userMode \notin {"VR", "SILENT_VR"}

\* a thread is inside its engine calls from the first of them to the last:
\* _apply about to write the mic routing, the health check between its
\* reconnect and its restore, _quit from the mic write to the logout
InEngineCalls(t) ==
    \/ pc[t] = "apply_vm" /\ (desiredMic # micEnabled \/ Force(t))
    \/ pc[t] = "health_restore"
    \/ pc[t] \in {"quit_devices", "quit_shutdown", "quit_close"}

\* C9: no two threads are inside engine-client calls at the same time; a mode
\* change of the tray menu and an enforcement tick with its health check and
\* restore exclude each other.
C9_EngineCallsExclusive ==
    \A t1, t2 \in Threads :
        t1 # t2 => ~(InEngineCalls(t1) /\ InEngineCalls(t2))

-----------------------------------------------------------------------------
\* Properties of the engine client (checked under SpecVm)

\* C12: after a getter or setter reports failure (a login that fails, a
\* non-success code of the native call, or an exception) the connection state
\* is Disconnected; a native call is issued only in state Connected, after a
\* fresh login when the state was Disconnected; one call makes at most one
\* login attempt.
C12_FailureDisconnects ==
    /\ (vmLast.m \in GetSet /\ vmLast.failed) => ~vmLoggedIn
    /\ (vmLast.m \in GetSet /\ vmLast.native) =>
          (vmLast.pre \/ vmLast.logins = 1)
    /\ vmLast.logins <= 1

\* C13: every method of the engine client returns normally whatever the
\* native library does (not found, login refused, a call that raises): no
\* exception reaches the caller, and a call that failed returns the method's
\* default value.
C13_NoThrow ==
    vmLast.m # "none" =>
        /\ ~vmLast.exc
        /\ vmLast.failed => vmLast.ret = VmDefault(vmLast.m)
        /\ vmLast.ret \in {"True", "False", "None", "value"}

\* set_param was called while connected and its native call raised
C13_Witness ==
    /\ vmLast.m = "set_param"
    /\ vmLast.pre
    /\ vmLast.o = "raise"
    /\ vmLast.native
    /\ vmLast.ret = "False"
    /\ ~vmLoggedIn

-----------------------------------------------------------------------------
\* Properties of the startup (checked under SpecMain)

\* C20: whatever vm_devices.json and vm_state.json hold (absent, empty, not
\* JSON, JSON of an unexpected shape or with values of an unexpected type),
\* startup never fails and reaches app.run(); a file that cannot be read as
\* JSON gives the defaults (no device bindings, the hard-coded parameters).
C20_StartupNeverFails ==
    /\ mainPc # "crashed"
    /\ (mainPc # "read_devices" /\ devFile \in {"absent", "empty", "malformed"})
          => vmDevices = "empty"
    /\ (mainPc \in {"set_params", "reapply", "run"}
           /\ snapFile \in {"absent", "empty", "malformed"})
          => vmParams = "defaults"

-----------------------------------------------------------------------------
\* Properties of _quit (checked under SpecQuit and SpecQuitDet)

\* _quit has issued its redirect to the desktop output
AfterQuitRedirect ==
    pc["ui"] \in {"quit_mic", "quit_devices", "quit_shutdown", "quit_close"}

\* C11: once _quit has issued its redirect back to the desktop output, no
\* enforcement tick in flight and no presence callback issues a redirect to
\* the VR device.
C11_NoVrRedirectAfterCleanup ==
    AfterQuitRedirect =>
        ~(\E t \in {"det", "enf"} :
             /\ pc[t] = "apply_vm"
             /\ lastSwitch.called
             /\ lastSwitch.dev = VrDevice)

\* the positions of a step in quitTrace
At(step) == {i \in 1..Len(quitTrace) : quitTrace[i].step = step}

\* C17: in _quit the device bindings are queried and written to
\* vm_devices.json before the shutdown command is sent, and the shutdown
\* command is sent before the client logs out.
C17_QuitOrder ==
    /\ \A i \in At("query"), j \in At("persist") : i < j
    /\ \A i \in At("query") \cup At("persist"), j \in At("shutdown") : i < j
    /\ \A i \in At("shutdown"), j \in At("close") : i < j
    /\ pc["ui"] = "done" =>
          /\ At("query") # {} /\ At("shutdown") # {} /\ At("close") # {}
          /\ (\E i \in At("query") : quitTrace[i].ok) => At("persist") # {}

\* the bindings were read and saved, the command sent, the client logged out
C17_Witness ==
    /\ pc["ui"] = "done"
    /\ \E i \in At("persist") : quitTrace[i].ok
    /\ \E i \in At("shutdown") : quitTrace[i].ok
    /\ \E i \in At("close") : quitTrace[i].ok
    /\ devFile = "object"

\* C18: during cleanup the redirect back to the desktop output is issued
\* twice.
C18_RedirectTwice ==
    pc["ui"] \in {"quit_devices", "quit_shutdown", "quit_close", "done"} =>
        Cardinality(At("redirect")) = 2

\* the calls _quit makes whatever the earlier ones returned
QuitSteps == {"redirect", "mic", "query", "shutdown", "close"}

-----------------------------------------------------------------------------
\* Properties of the enforcement tick (checked under SpecTick)

\* the forced _apply of a tick has called switch_to and not yet the engine
TickSwitched == pc["enf"] = "apply_vm" /\ ret["enf"] = "enf_health"

\* the lower-cased names of the sessions outside the exclusion set excl
Remaining(excl) == {Lower(p) : p \in sessions} \ (SYSTEM_EXCLUDE \cup excl)

\* C14: every enforcement tick calls switch_to for the desired output and
\* issues a redirect for every enumerated app that is not excluded, and
\* writes the mic routing flag and the two fixed routing flags, whatever the
\* cached output, confirmation and mic state are; an app whose session
\* started after the last switch is among the redirects of the tick.
C14_TickReapplies ==
    /\ TickSwitched =>
          /\ lastSwitch.called
          /\ lastSwitch.dev = DeviceOf(desired)
          /\ lastSwitch.enumOk => lastSwitch.cmds = Remaining(userExclude)
    /\ pc["enf"] = "enf_health" =>
          /\ vmWrites.by = "enf"
          /\ vmWrites.forced
          /\ vmWrites.n = 3

\* the first tick finds output and mic routing as cached, and redirects an
\* app that opened its session after the switch
C14_Witness ==
    /\ TickSwitched
    /\ events = 1
    /\ rawSince = 0
    /\ desired = "VR"
    /\ micEnabled = desiredMic
    /\ "discord.exe" \in lastSwitch.cmds
    /\ routing["discord.exe"] = VrDevice

C16_ConfigReloaded ==
    (TickSwitched /\ multiTarget /\ lastSwitch.called /\ lastSwitch.enumOk) =>
        lastSwitch.cmds = Remaining({Lower(e) : e \in cfgExclude})

-----------------------------------------------------------------------------
\* Properties of main() before app.run() (checked under SpecBoot)

\* config.json is absent or lacks a required key
ConfigError ==
    \/ cfgFile = "absent"
    \/ cfgFile = "object" /\ ~(RequiredFields \subseteq cfgFields)

\* C21: when config.json is absent or a required field (svcl path, VR device,
\* VR process name, poll interval, debounce seconds) is missing, the process
\* ends with the error shown to the user and without starting the poll loop
\* or the enforcement loop.
C21_ConfigErrorSurfaced ==
    ConfigError =>
        /\ pc["det"] = "off"
        /\ pc["enf"] = "off"
        /\ mainPc \notin {"read_devices", "set_devices", "read_state",
                          "set_params", "set_param", "reapply", "run"}
        /\ mainPc \in {"exit1", "crashed"} => dialog = "error"

-----------------------------------------------------------------------------
\* Properties of the loops under failures (checked under SpecFault)

\* C22: a failure or an exception of svcl, of the VoiceMeeter client, of the
\* state file or of the callback during a poll or an enforcement tick does not
\* end the poll loop or the enforcement loop: the thread that caught it is
\* alive, does not hold the lock while it waits, and the next poll is due
\* within the poll interval.
C22_LoopsSurvive ==
    /\ \A t \in {"det", "enf"} :
         raised[t] # "no" =>
            /\ pc[t] \notin {"dead", "done"}
            /\ pc[t] \in {"wait", "poll_end", "enf_wait"} => lockOwner # t
    /\ raised["det"] = "yes" /\ pc["det"] = "wait" => nextPoll <= now + PollInterval

\* both loops began an iteration after an exception
C22_Witness ==
    /\ raised["det"] = "resumed"
    /\ raised["enf"] = "resumed"

-----------------------------------------------------------------------------
\* Properties of _apply after a switch that failed (checked under SpecStart)

\* thread t takes the step of _apply that decides and issues the switch
SwitchStep(t) == pc[t] = "apply_switch" /\ pc'[t] = "apply_vm"

C23_Step ==
    /\ \A t \in Threads :
         SwitchStep(t) =>
            /\ ~confirmed => lastSwitch'.called
            /\ lastSwitch'.called /\ ~lastSwitch'.ret =>
                  /\ currentOutput' = currentOutput
                  /\ routing' = routing
                  /\ ~confirmed'
            /\ lastSwitch'.called /\ lastSwitch'.ret =>
                  /\ confirmed'
                  /\ currentOutput' = desired
                  /\ lastSwitch'.dev = DeviceOf(currentOutput')
    /\ confirmed' /\ (~confirmed \/ currentOutput' # currentOutput) =>
          \E t \in Threads :
             SwitchStep(t) /\ lastSwitch'.called /\ lastSwitch'.ret

\* C23: a switch that redirects nothing leaves the recorded current output
\* (and the routing) unchanged and clears the confirmed flag; while the flag
\* is false the next _apply issues the switch again even when the desired
\* output equals the recorded one; the flag becomes true only by a switch
\* that succeeded for the output then recorded as current.
C23_FailedSwitchIsNoop == [][C23_Step]_vars

\* an _apply without force issued the switch although the desired output is
\* the recorded one, and the switch failed again
C23_Witness ==
    \E t \in Threads :
        /\ pc[t] = "apply_vm"
        /\ ~Force(t)
        /\ lastSwitch.called
        /\ ~lastSwitch.ret
        /\ currentOutput = desired
        /\ ~confirmed

-----------------------------------------------------------------------------
\* Properties of the restore of vm_state.json (checked under SpecMain)

\* the engine holds v for p, or the call that set it failed and the engine
\* still holds its own value
HoldsOrFailed(p, v) == engine[p] \in {v, EngineFresh[p]}

\* C24: a parameter snapshot written by the mixer (a JSON object of numbers)
\* is restored at startup by a set_param of exactly the stored value for
\* every stored parameter, except the fixed routing flags, which are set to
\* their constant whatever the file holds for them.
C24_RoundTrip ==
    mainPc = "run" /\ snapFile = "object" =>
        /\ \A p \in DOMAIN snap \ RoutingFlags :
              /\ lastSet[p] = <<snap[p].v>>
              /\ HoldsOrFailed(p, snap[p].v)
        /\ \A f \in RoutingFlags :
              /\ lastSet[f] = <<FlagValue>>
              /\ HoldsOrFailed(f, FlagValue)

\* a snapshot with every gain and with a routing flag stored at another value
\* than its constant was restored and every call succeeded
C24_Witness ==
    /\ mainPc = "run"
    /\ snapFile = "object"
    /\ GainNames \subseteq DOMAIN snap
    /\ \E f \in RoutingFlags \cap DOMAIN snap : snap[f].v # FlagValue
    /\ \A p \in GainNames : engine[p] = snap[p].v /\ engine[p] # EngineFresh[p]
    /\ \A f \in RoutingFlags : engine[f] = FlagValue

-----------------------------------------------------------------------------
\* Properties of the restore after a restart of VoiceMeeter (checked under
\* SpecRestart)

\* C25: after every restore of the saved parameters, at startup and after a
\* restart of VoiceMeeter, the last value written to each of the two routing
\* flags (mic -> B1, music -> B2) is its constant, whatever vm_state.json
\* holds.
C25_FlagsWrittenLast ==
    pc["enf"] # "health_param" =>
        \A f \in RoutingFlags : lastSet[f] = <<FlagValue>>

-----------------------------------------------------------------------------
\* Properties of the single-instance mutex (checked under SpecBoot)

\* C26: a process started while another switcher process holds the named
\* mutex exits without building the detector, without a redirect and without
\* a call of the VoiceMeeter client, so the loops never run in two processes
\* at once.
C26_SingleInstance ==
    /\ dialog = "info" =>
          /\ mainPc = "exit0"
          /\ \A t \in Threads : pc[t] = "off"
          /\ lastSwitch = NoSwitch
          /\ ~vmDll
          /\ ~vmLoggedIn
          /\ lastSet = NoneSet
          /\ engine = EngineFresh
    /\ ~(otherPc = "running" /\ mainPc \notin {"mutex"} \cup Ended)

\* this process was started while the other one ran, and has exited
C26_Witness ==
    /\ otherPc = "running"
    /\ mainPc = "exit0"
    /\ dialog = "info"

-----------------------------------------------------------------------------
\* Who writes the user mode

\* a menu item or a left click of the tray icon assigns the mode
MenuStep == pc["ui"] = "ui_idle" /\ pc'["ui"] = "apply_begin"

\* _check_mode_request assigns the mode requested in state.json
RequestStep == pc["enf"] = "cmr_set" /\ userMode' = req

\* the detector's callback, having found the mode VR or SILENT_VR, falls
\* back on a report of the change from present to absent
DropStep ==
    /\ pc["det"] = "cb_fallback"
    /\ prevRunning = "True"
    /\ vrRunning = "False"
    /\ userMode' = "AUTO"

\* C27: the user mode changes only by a menu action, by a mode request, or by
\* the detector's callback when presence dropped from present to absent while
\* the mode is VR or SILENT_VR; no other step (apply, enforcement re-apply,
\* health check, or a callback on any other report) changes it.
C27_ModeWriters ==
    [][userMode' # userMode => (MenuStep \/ RequestStep \/ DropStep)]_vars

-----------------------------------------------------------------------------
\* The detector's stop()

\* detector.stop() has returned: the stop event is set and _quit is past its
\* join
StopReturned == detStop /\ pc["ui"] # "quit_join"

\* C28: when the detector's stop() has returned, the poll loop has exited:
\* the detector's thread is in no poll and in no callback, also when a
\* callback was in progress at the time stop() was called.
C28_StoppedMeansExited == StopReturned => pc["det"] \in {"done", "off"}

-----------------------------------------------------------------------------
\* The end of the two loops

\* the wait of loop t at the top of an iteration
WaitOf(t) == IF t = "det" THEN "wait" ELSE "enf_wait"

\* loop t has exited, or the process has ended under it
Exited(t) == pc[t] = "done" \/ ~Alive

\* with its stop event set, a waiting loop starts no iteration
C29_Step ==
    /\ (detStop /\ pc["det"] = "wait") => pc'["det"] \in {"wait", "done"}
    /\ (stopFlag /\ pc["enf"] = "enf_wait") => pc'["enf"] \in {"enf_wait", "done"}

\* C29: after the stop signal is set, the poll loop and the enforcement loop
\* start no further iteration and eventually exit; and every iteration that
\* has begun ends (no step of a loop is retried without a bound), so each
\* loop is back at its wait or has exited.
C29_LoopsStop ==
    /\ [][C29_Step]_vars
    /\ (detStop /\ stopFlag) ~> (Exited("det") /\ Exited("enf"))
    /\ \A t \in {"det", "enf"} : (pc[t] # WaitOf(t)) ~> (pc[t] = WaitOf(t) \/ Exited(t))

\* both loops have run (a later callback and a tick), the stop events are set
\* and both loops have exited while _quit is still at work
C29_Witness ==
    /\ detStop
    /\ stopFlag
    /\ pc["det"] = "done"
    /\ pc["enf"] = "done"
    /\ Alive
    /\ cbCount >= 2
    /\ events >= 1

-----------------------------------------------------------------------------
\* The order of the restart of the engine

\* the health check has relaunched the engine and waits for it
Relaunched == pc["enf"] = "health_reconnect"

\* C30: the restart path disconnects the stale engine client first, then
\* relaunches the engine, waits, reconnects and restores: once the engine is
\* relaunched and the path waits for it, the client is disconnected.
C30_DisconnectBeforeRelaunch == Relaunched => ~vmLoggedIn

-----------------------------------------------------------------------------
\* switch_to(DESKTOP) twice in a row

\* the last two calls of switch_to both asked for the desktop output
TwiceDesktop ==
    /\ prevSwitch.called
    /\ lastSwitch.called
    /\ prevSwitch.dev = DefaultRenderDevice
    /\ lastSwitch.dev = DefaultRenderDevice

\* svcl.exe behaved in the second call as in the first: the enumeration
\* succeeded or failed in both, and each process both calls issued a redirect
\* for got the same answer
SameAnswers ==
    /\ lastSwitch.enumOk = prevSwitch.enumOk
    /\ \A p \in lastSwitch.cmds \cap prevSwitch.cmds :
         lastSwitch.res[p] = prevSwitch.res[p]

\* the second call changed no routing and returned True if the first did
SecondIsNoop ==
    /\ routing = prevRouting
    /\ prevSwitch.ret => lastSwitch.ret

-----------------------------------------------------------------------------
\* The legacy single-target mode

\* a process with the name of the legacy target runs
TargetRuns == \E p \in procs : Lower(p) = Lower(Target)

\* C32: without exclude_processes in the configuration switch_to works in
\* the legacy mode: it issues a redirect for the target process alone when
\* that process runs, issues none and returns False when it does not run, and
\* the routing of every other app stays as it was.
C32_LegacyMode ==
    (~multiTarget /\ lastSwitch.called) =>
        /\ lastSwitch.cmds = (IF TargetRuns THEN {Target} ELSE {})
        /\ ~TargetRuns => ~lastSwitch.ret
        /\ \A p \in DOMAIN routing :
             p # Target => routing[p] = DefaultRenderDevice

\* the legacy mode redirected its target to the VR device while other apps
\* held audio sessions
C32_Witness ==
    /\ ~multiTarget
    /\ lastSwitch.called
    /\ lastSwitch.ret
    /\ routing[Target] = VrDevice
    /\ sessions # {}

-----------------------------------------------------------------------------
\* The device of the desktop output

\* the device a redirect to dev lands on: svcl resolves the name
\* DefaultRenderDevice to the default device of the operating system
Resolved(dev) == IF dev = DefaultRenderDevice THEN osDefault ELSE dev

\* the active devices that are no VR headset
Candidates == renderDevices \ {"Headset"}

\* C33: the device of the desktop output is never a VR-headset device while
\* another device is active (with an HDMI device and a headset it is the
\* HDMI device); the default render device of the operating system is used
\* only when no candidate remains.
C33_DesktopNeverHeadset ==
    (lastSwitch.called /\ lastSwitch.dev = DeviceOf("DESKTOP")) =>
        /\ Candidates # {} => Resolved(lastSwitch.dev) \in Candidates
        /\ renderDevices = {"HDMI", "Headset"} => Resolved(lastSwitch.dev) = "HDMI"

-----------------------------------------------------------------------------
\* The handling of a mode request

\* state.json holds a request
Requested == stateFile.exists /\ stateFile.requested # "none"

\* what each step of _check_mode_request in the enforcement thread has to do
C34_Step ==
    /\ (pc["enf"] = "cmr_read" /\ pc'["enf"] # "cmr_read" /\ ~Requested) =>
          /\ userMode' = userMode
          /\ stateFile' = stateFile
          /\ pc'["enf"] \notin {"cmr_set", "cmr_write"}
    /\ (pc["enf"] = "cmr_set" /\ pc'["enf"] # "cmr_set") =>
          /\ userMode' = (IF req \in UserModes THEN req ELSE userMode)
          /\ pc'["enf"] = (IF req \in UserModes THEN "apply_begin" ELSE "cmr_write")
    /\ (pc["enf"] = "cmr_write" /\ pc'["enf"] # "cmr_write") =>
          /\ req \in UserModes =>
                /\ userMode = req
                /\ confirmed => \E b \in BOOLEAN : currentOutput = DesiredOutput(req, b)
                /\ ~faults => micEnabled = DesiredMic(req)
          /\ userMode' = userMode
          /\ stateFile'.requested = "none"
          /\ stateFile'.current = userMode

\* C34: a tick that finds a requested mode in state.json sets the mode to it
\* and applies the routing when it names a mode, leaves the mode unchanged
\* when it names none, and in both cases clears the request and writes the
\* mode in memory as the file's current mode; without a request the tick
\* leaves the file and the mode untouched.
C34_ModeRequest == [][C34_Step]_vars

\* a request naming no mode has been cleared and the mode is as it was,
\* after an earlier request for another mode had been served
C34_Witness ==
    /\ stateFile.exists
    /\ stateFile.requested = "none"
    /\ stateFile.current = userMode
    /\ req = "none"
    /\ events = MaxEvents
    /\ pc["enf"] = "apply_begin"
    /\ ret["enf"] = "enf_health"
    /\ userMode # "AUTO"

-----------------------------------------------------------------------------
\* The left click of the tray icon

\* the order of the docstring of _cycle_mode
DocumentedCycle == <<"DESKTOP", "AUTO", "VR", "SILENT_VR">>

\* the mode after mode in that order
DocumentedNext(mode) ==
    LET i == CHOOSE k \in 1..Len(DocumentedCycle) : DocumentedCycle[k] = mode
    IN  DocumentedCycle[(i % Len(DocumentedCycle)) + 1]

\* C35: each left click advances the mode in the order Desktop, Auto, VR,
\* Private (SILENT_VR), Desktop.
C35_CycleOrder ==
    [][(pc["ui"] = "ui_idle" /\ pc'["ui"] = "apply_begin") =>
           userMode' = DocumentedNext(userMode)]_vars

-----------------------------------------------------------------------------
\* state.json and the mode in memory

\* no menu action, request handling or fallback is in flight: the menu thread
\* is idle, the detector and the enforcement loop are between iterations,
\* and state.json holds no request
Quiescent ==
    /\ pc["ui"] = "ui_idle"
    /\ pc["det"] \in {"wait", "off", "done"}
    /\ pc["enf"] \in {"enf_wait", "off", "done"}
    /\ ~Requested

\* C36: once every mode-changing operation in flight has completed, the
\* current mode of state.json is the mode in memory.
C36_FileMatchesMode == Quiescent => (stateFile.exists /\ stateFile.current = userMode)

-----------------------------------------------------------------------------
\* The mode an _apply works with

\* some thread's _apply has computed desired and desired_mic and is about to
\* write the mic routing
Applying == \E t \in Threads : pc[t] = "apply_vm"

\* C37: the output and the mic routing an _apply applies belong to one and
\* the same mode, also when the mode is written while the _apply runs.
\* Stated in its weakest form: some mode, with the VR runtime present or not,
\* has this output and this mic routing.
C37_OneModePerApply ==
    Applying =>
        \E m \in UserModes, b \in BOOLEAN :
            desired = DesiredOutput(m, b) /\ desiredMic = DesiredMic(m)

-----------------------------------------------------------------------------
\* Restart after an update (checked under SpecUpdate)

\* the process launched by restart_app has run acquire_single_instance
Decided == otherPc \notin {"off", "launched"}

\* C38: after restart_app() is invoked by an instance that holds the
\* single-instance mutex, the newly launched process never finds the mutex
\* still held and quits as already running: once it has asked for the mutex
\* it is the running instance and owns the mutex.
C38_RestartKeepsOne == Decided => (otherPc = "running" /\ mutex = "other")

-----------------------------------------------------------------------------
\* The wizard's config.json at the switcher's start (checked under SpecWizard)

\* config.json is the one the wizard's finish step has written
WizardConfig == cfgFile = "object" /\ cfgFields = WizardFields

\* C39: the switcher started on a wizard-written config.json does not leave
\* with the configuration error of main(), and when it builds the
\* application every key the constructors subscript is in the file.
C39_WizardConfigStarts ==
    WizardConfig =>
        /\ mainPc # "exit1"
        /\ mainPc = "construct" => ConstructorFields \subseteq cfgFields

====
